---- MODULE Spec2Model ----
(***************************************************************************)
(* A model of Sled, the spatial LED index of DavJCosby/slc: the LED buffer *)
(* built from a line-segment layout, the two lookup tables derived from    *)
(* it, the index / range / segment / vertex accessors, and the direction,  *)
(* position and distance queries; of Data, the driver's key-value store;   *)
(* of the RoomController of the first revision and the Sweep input device  *)
(* that writes to it from a thread of its own; and of the configuration    *)
(* parser with its process-wide default density.                           *)
(*                                                                         *)
(* Buffer positions, segment indices and vertex indices are 0-based as in  *)
(* the source; TLA+ sequences are 1-based, so position p of a Vec is       *)
(* element p + 1 of the sequence that models it.                           *)
(***************************************************************************)
EXTENDS Integers, Sequences, FiniteSets, TLC

VARIABLES
    line_segments,                  \* Sled.line_segments (the parsed Config)
    leds,                           \* Sled.leds
    line_segment_endpoint_indices,  \* Sled.line_segment_endpoint_indices
    vertex_indices,                 \* Sled.vertex_indices
    center_point,                   \* Sled.center_point
    data,                           \* Data.data, the driver's key-value store
    room_data,                      \* RoomController.room_data
    lock,                           \* the RwLock around the RoomController
    sweep,                          \* the thread Sweep::start spawns
    DEFAULT_DENSITY,                \* static mut DEFAULT_DENSITY of config.rs
    parses,                         \* the Config::from_toml_file calls running
    op,                             \* name of the last method called
    result                          \* how that call ended

\* The variables of the room controller and its input device, and those of
\* the configuration parser.
room_vars == <<room_data, lock, sweep>>
config_vars == <<DEFAULT_DENSITY, parses>>

vars == <<line_segments, leds, line_segment_endpoint_indices, vertex_indices,
          center_point, data, room_vars, config_vars, op, result>>

(***************************************************************************)
(* Bounds and input domains.                                               *)
(***************************************************************************)
\* Largest number of line segments in a layout.
MaxSegs == 2

\* Rgb values; default_color is the black every LED is built with.
default_color == "black"
Colors == {"black", "red"}

\* The line segments a configuration file may list.  Coordinates and
\* densities are integers and every segment is axis-aligned, so that its
\* length is an integer.
SegmentChoices ==
    { [start |-> <<0, 0>>, end |-> <<2, 0>>, density |-> 1],
      [start |-> <<2, 0>>, end |-> <<2, 1>>, density |-> 1],
      [start |-> <<2, 1>>, end |-> <<0, 1>>, density |-> 0] }

\* A layout lists up to MaxSegs of them, in any order, each strip once.
Layouts ==
    { layout \in UNION { [1..n -> SegmentChoices] : n \in 1..MaxSegs } :
        \A j, k \in 1..Len(layout) : layout[j] = layout[k] => j = k }

\* The center point a configuration file may give: the middle of the first
\* segment choice.
CenterPoints == { <<1, 0>> }

\* Points, directions, angles and distances handed to the geometric
\* queries.  An angle is a number of quarter turns, so that its cosine and
\* sine are integers; with integer coordinates and these distances every
\* circle meets the line of every segment choice at rational parameters.
QueryPoints == { <<0, 0>>, <<1, 0>>, <<2, 1>>, <<1, 2>> }
Dirs == { <<1, 0>>, <<0, 1>>, <<-1, 0>>, <<0, -1>>, <<1, 1>> }
Angles == 0..3
Dists == {0, 1}

\* Colour rules handed to the modulate_* methods and closures handed to
\* for_each_*: each maps an LED to its new colour.
ColorRules == {"swap", "odd_red"}

color_rule(rule, led) ==
    IF rule = "swap"
    THEN (IF led.color = "black" THEN "red" ELSE "black")
    ELSE (IF led.index % 2 = 1 THEN "red" ELSE led.color)

(***************************************************************************)
(* Construction.                                                           *)
(***************************************************************************)
Abs(x) == IF x < 0 THEN -x ELSE x

\* LineSegment::length: the distance from start to end (axis-aligned here).
length(line) ==
    Abs(line.end[1] - line.start[1]) + Abs(line.end[2] - line.start[2])

\* LineSegment::num_leds: max(1, round(length * density)).
num_leds(line) ==
    IF length(line) * line.density < 1 THEN 1 ELSE length(line) * line.density

leds_per_segment(segments) ==
    [k \in 1..Len(segments) |-> num_leds(segments[k])]

\* Led::new.
Led(color, position, index, segment) ==
    [color |-> color, position |-> position, index |-> index, segment |-> segment]

\* The position start.lerp(end, i / (segment_size - 1)), kept as the exact
\* fraction <<x numerator, y numerator, denominator>>.  A one-LED segment has
\* the denominator 0: the source divides 0.0 by 0.0 there.
lerp_position(segment, i, segment_size) ==
    << segment.start[1] * (segment_size - 1 - i) + segment.end[1] * i,
       segment.start[2] * (segment_size - 1 - i) + segment.end[2] * i,
       segment_size - 1 >>

\* Faulty variant of build_segment_leds: the index restarts at 0 in every
\* segment.
build_segment_leds_local_index(so_far, segment_index, segment, segment_size) ==
    so_far \o [i \in 1..segment_size |->
                 Led(default_color,
                     lerp_position(segment, i - 1, segment_size),
                     i - 1,
                     segment_index)]

\* The inner loop of build_led_list: the LEDs of one segment, appended to the
\* buffer built so far.  Each LED's index is the buffer length at its push.
build_segment_leds(so_far, segment_index, segment, segment_size) ==
    so_far \o [i \in 1..segment_size |->
                 Led(default_color,
                     lerp_position(segment, i - 1, segment_size),
                     Len(so_far) + i - 1,
                     segment_index)]

\* The outer loop of build_led_list, over the first n segments.
RECURSIVE build_led_list_upto(_, _, _)
build_led_list_upto(per_segment, segments, n) ==
    IF n = 0 THEN <<>>
    ELSE build_segment_leds(build_led_list_upto(per_segment, segments, n - 1),
                            n - 1, segments[n], per_segment[n])

build_led_list(per_segment, segments) ==
    build_led_list_upto(per_segment, segments, Len(per_segment))

\* Faulty variant of endpoint_entry: the end is the last LED, not one past it.
endpoint_entry_inclusive(last_index, n_leds) == <<last_index, last_index + n_leds - 1>>

\* Sled::line_segment_endpoint_indices: last_index is the end of the entry
\* pushed before.
endpoint_entry(last_index, n_leds) == <<last_index, last_index + n_leds>>

RECURSIVE endpoint_indices_upto(_, _)
endpoint_indices_upto(per_segment, n) ==
    IF n = 0 THEN <<>>
    ELSE LET before == endpoint_indices_upto(per_segment, n - 1)
             last_index == IF n = 1 THEN 0 ELSE before[n - 1][2]
         IN  Append(before, endpoint_entry(last_index, per_segment[n]))

build_line_segment_endpoint_indices(per_segment) ==
    endpoint_indices_upto(per_segment, Len(per_segment))

\* Faulty variant of vertices_of_line: the start is pushed for every segment.
vertices_of_line_uncollapsed(line, last_index, last_end_point) ==
    <<last_index, last_index + num_leds(line) - 1>>

\* Faulty variant of vertices_of_line: the last vertex is one past the segment.
vertices_of_line_past_end(line, last_index, last_end_point) ==
    (IF <<line.start>> # last_end_point THEN <<last_index>> ELSE <<>>)
        \o <<last_index + num_leds(line)>>

\* Sled::vertex_indices.  One pass of the loop: the vertices segment `line`
\* adds, given last_index and last_end_point (<<>> models None).
vertices_of_line(line, last_index, last_end_point) ==
    (IF <<line.start>> # last_end_point THEN <<last_index>> ELSE <<>>)
        \o <<last_index + num_leds(line) - 1>>

RECURSIVE last_index_after(_, _)
last_index_after(segments, n) ==
    IF n = 0 THEN 0 ELSE last_index_after(segments, n - 1) + num_leds(segments[n])

RECURSIVE vertex_indices_upto(_, _)
vertex_indices_upto(segments, n) ==
    IF n = 0 THEN <<>>
    ELSE vertex_indices_upto(segments, n - 1)
            \o vertices_of_line(segments[n],
                                last_index_after(segments, n - 1),
                                IF n = 1 THEN <<>> ELSE <<segments[n - 1].end>>)

build_vertex_indices(segments) == vertex_indices_upto(segments, Len(segments))

(***************************************************************************)
(* Results of calls.                                                       *)
(***************************************************************************)
\* A call's outcome: tag is "Ok", "Err", "Some", "None" or "Panic"; val is
\* what a read hands back, as buffer positions; leds is the buffer after it.
Outcome(tag, val, buffer) == [tag |-> tag, val |-> val, leds |-> buffer]

At(buffer, index) == buffer[index + 1]

with_color(buffer, index, color) == [buffer EXCEPT ![index + 1].color = color]

(***************************************************************************)
(* Index-based methods.                                                    *)
(***************************************************************************)
\* Sled::get: self.leds.get(index).
get(buffer, index) ==
    IF index < Len(buffer) THEN Outcome("Some", <<index>>, buffer)
    ELSE Outcome("None", <<>>, buffer)

\* Faulty variant of set: the colour lands on the next LED.
set_neighbour(buffer, index, color) ==
    IF index < Len(buffer)
    THEN Outcome("Ok", <<>>, with_color(buffer, (index + 1) % Len(buffer), color))
    ELSE Outcome("Err", <<>>, buffer)

\* Sled::set.
set(buffer, index, color) ==
    IF get(buffer, index).tag = "None" THEN Outcome("Err", <<>>, buffer)
    ELSE Outcome("Ok", <<>>, with_color(buffer, index, color))

(***************************************************************************)
(* Index range-based methods.                                              *)
(***************************************************************************)
\* The buffer positions start, start + 1, ..., end - 1.
positions(start, end) == [k \in 1..(end - start) |-> start + k - 1]

\* The slice expression &self.leds[start..end]: it panics when the range is
\* reversed or reaches past the buffer.
slice(buffer, start, end) ==
    IF start > end \/ end > Len(buffer) THEN Outcome("Panic", <<>>, buffer)
    ELSE Outcome("Some", positions(start, end), buffer)

\* Sled::get_range: &self.leds[index_range].
get_range(buffer, start, end) == slice(buffer, start, end)

\* Sled::set_range: for index in index_range { self.set(index, color)? }.
RECURSIVE set_range(_, _, _, _)
set_range(buffer, start, end, color) ==
    IF start >= end THEN Outcome("Ok", <<>>, buffer)
    ELSE LET one == set(buffer, start, color)
         IN  IF one.tag = "Err" THEN one
             ELSE set_range(one.leds, start + 1, end, color)

\* for led in &mut self.leds[start..end] { led.color = color }.
set_slice(buffer, start, end, color) ==
    [p \in 1..Len(buffer) |->
        IF start < p /\ p <= end
        THEN [buffer[p] EXCEPT !.color = color]
        ELSE buffer[p]]

\* for led in &mut self.leds[start..end] { led.color = color_rule(led) }.
modulate_slice(buffer, start, end, rule) ==
    [p \in 1..Len(buffer) |->
        IF start < p /\ p <= end
        THEN [buffer[p] EXCEPT !.color = color_rule(rule, buffer[p])]
        ELSE buffer[p]]

(***************************************************************************)
(* Segment-based methods.                                                  *)
(***************************************************************************)
\* Sled::get_segment.
get_segment(buffer, table, segment_index) ==
    IF segment_index >= Len(table) THEN Outcome("None", <<>>, buffer)
    ELSE get_range(buffer, At(table, segment_index)[1], At(table, segment_index)[2])

\* Sled::set_segment.
set_segment(buffer, table, segment_index, color) ==
    IF segment_index >= Len(table) THEN Outcome("Err", <<>>, buffer)
    ELSE set_range(buffer, At(table, segment_index)[1],
                   At(table, segment_index)[2], color)

\* Sled::modulate_segment: the bounds check on the segment index, then
\* for led in &mut self.leds[start..end] { led.color = color_rule(led) }.
modulate_segment(buffer, table, segment_index, rule) ==
    IF segment_index >= Len(table) THEN Outcome("Err", <<>>, buffer)
    ELSE LET start == At(table, segment_index)[1]
             end   == At(table, segment_index)[2]
         IN  IF slice(buffer, start, end).tag = "Panic"
             THEN Outcome("Panic", <<>>, buffer)
             ELSE Outcome("Ok", <<>>, modulate_slice(buffer, start, end, rule))

\* Sled::segments: the Filter of the LEDs of a range of segments.
segments(buffer, table, range_start, range_end) ==
    IF range_start >= Len(table) THEN Outcome("None", <<>>, buffer)
    ELSE IF range_end >= Len(table) THEN Outcome("None", <<>>, buffer)
    ELSE slice(buffer, At(table, range_start)[1], At(table, range_end)[2])

\* Sled::modulate_segments: range.start is checked, range.end indexes the
\* table unchecked, and the slice runs from the first segment's start to the
\* end of the segment numbered range.end.
modulate_segments(buffer, table, range_start, range_end, rule) ==
    IF range_start >= Len(table) THEN Outcome("Err", <<>>, buffer)
    ELSE IF range_end >= Len(table) THEN Outcome("Panic", <<>>, buffer)
    ELSE LET start == At(table, range_start)[1]
             end   == At(table, range_end)[2]
         IN  IF slice(buffer, start, end).tag = "Panic"
             THEN Outcome("Panic", <<>>, buffer)
             ELSE Outcome("Ok", <<>>, modulate_slice(buffer, start, end, rule))

\* Faulty variant of set_segments: an LED that already has the colour is
\* reset to the default colour.
set_segments_blend(buffer, table, range_start, range_end, color) ==
    IF range_start >= Len(table) THEN Outcome("Err", <<>>, buffer)
    ELSE IF range_end >= Len(table) THEN Outcome("Panic", <<>>, buffer)
    ELSE LET start == At(table, range_start)[1]
             end   == At(table, range_end)[2]
         IN  IF slice(buffer, start, end).tag = "Panic"
             THEN Outcome("Panic", <<>>, buffer)
             ELSE Outcome("Ok", <<>>,
                          [p \in 1..Len(buffer) |->
                              IF start < p /\ p <= end
                              THEN [buffer[p] EXCEPT !.color =
                                       IF @ = color THEN default_color ELSE color]
                              ELSE buffer[p]])

\* Sled::set_segments: as modulate_segments, with led.color = color.
set_segments(buffer, table, range_start, range_end, color) ==
    IF range_start >= Len(table) THEN Outcome("Err", <<>>, buffer)
    ELSE IF range_end >= Len(table) THEN Outcome("Panic", <<>>, buffer)
    ELSE LET start == At(table, range_start)[1]
             end   == At(table, range_end)[2]
         IN  IF slice(buffer, start, end).tag = "Panic"
             THEN Outcome("Panic", <<>>, buffer)
             ELSE Outcome("Ok", <<>>, set_slice(buffer, start, end, color))

\* The closures handed to for_each_in_segment: a colour rule that ignores
\* alpha, or "fade", which lights the LEDs of the upper half of the segment.
\* alpha is the fraction <<numerator, denominator>>.
SegmentFuncs == ColorRules \cup {"fade"}

func(f, led, alpha) ==
    IF f = "fade"
    THEN IF 2 * alpha[1] >= alpha[2] THEN "red" ELSE "black"
    ELSE color_rule(f, led)

\* Faulty variant of segment_alpha: the last LED of the segment gets alpha 1.
segment_alpha_inclusive(index, start, end) == <<index - start, end - start - 1>>

\* let alpha = (index - start) as f32 / num_leds_f32, with
\* num_leds_f32 = (end - start) as f32.
segment_alpha(index, start, end) == <<index - start, end - start>>

\* The loop of Sled::for_each_in_segment from `index` on:
\* for index in start..end { func(&mut self.leds[index], alpha) }.
\* `calls` lists the (LED, alpha) pairs handed to the closure so far.
RECURSIVE for_each_in_segment_from(_, _, _, _, _, _)
for_each_in_segment_from(buffer, start, end, index, f, calls) ==
    IF index >= end THEN Outcome("Ok", calls, buffer)
    ELSE IF index >= Len(buffer) THEN Outcome("Panic", calls, buffer)
    ELSE LET alpha == segment_alpha(index, start, end)
         IN  for_each_in_segment_from(
                 with_color(buffer, index, func(f, At(buffer, index), alpha)),
                 start, end, index + 1, f,
                 Append(calls, [index |-> index, alpha |-> alpha]))

\* Sled::for_each_in_segment.
for_each_in_segment(buffer, table, segment_index, f) ==
    IF segment_index >= Len(table) THEN Outcome("Err", <<>>, buffer)
    ELSE for_each_in_segment_from(buffer, At(table, segment_index)[1],
                                  At(table, segment_index)[2],
                                  At(table, segment_index)[1], f, <<>>)

(***************************************************************************)
(* Vertex-based methods.                                                   *)
(***************************************************************************)
\* Sled::get_vertex: self.vertex_indices.get(vertex_index)?, then self.get.
get_vertex(buffer, vertices, vertex_index) ==
    IF vertex_index >= Len(vertices) THEN Outcome("None", <<>>, buffer)
    ELSE get(buffer, At(vertices, vertex_index))

\* Sled::vertex: Some(&self.leds[vertex_index]).
vertex(buffer, vertices, vertex_index) ==
    IF vertex_index >= Len(vertices) THEN Outcome("None", <<>>, buffer)
    ELSE IF vertex_index >= Len(buffer) THEN Outcome("Panic", <<>>, buffer)
    ELSE Outcome("Some", <<vertex_index>>, buffer)

\* Sled::modulate_vertex: let led = &mut self.leds[vertex_index].
modulate_vertex(buffer, vertices, vertex_index, rule) ==
    IF vertex_index >= Len(vertices) THEN Outcome("Err", <<>>, buffer)
    ELSE IF vertex_index >= Len(buffer) THEN Outcome("Panic", <<>>, buffer)
    ELSE Outcome("Ok", <<>>,
                 with_color(buffer, vertex_index,
                            color_rule(rule, At(buffer, vertex_index))))

\* Faulty variant of set_vertex: a vertex index past the table is clamped to
\* the last vertex.
set_vertex_clamped(buffer, vertices, vertex_index, color) ==
    LET k == IF vertex_index >= Len(vertices) THEN Len(vertices) - 1
             ELSE vertex_index
    IN  IF At(vertices, k) >= Len(buffer) THEN Outcome("Panic", <<>>, buffer)
        ELSE Outcome("Ok", <<>>, with_color(buffer, At(vertices, k), color))

\* Sled::set_vertex: self.leds[self.vertex_indices[vertex_index]].color = color.
set_vertex(buffer, vertices, vertex_index, color) ==
    IF vertex_index >= Len(vertices) THEN Outcome("Err", <<>>, buffer)
    ELSE IF At(vertices, vertex_index) >= Len(buffer)
         THEN Outcome("Panic", <<>>, buffer)
    ELSE Outcome("Ok", <<>>, with_color(buffer, At(vertices, vertex_index), color))

\* Sled::set_vertices: for i in vertex_indices { self.set(i, color).unwrap() },
\* over the vertices from position `from` on.
RECURSIVE set_vertices_from(_, _, _, _)
set_vertices_from(buffer, vertices, from, color) ==
    IF from >= Len(vertices) THEN Outcome("Ok", <<>>, buffer)
    ELSE LET one == set(buffer, At(vertices, from), color)
         IN  IF one.tag = "Err" THEN Outcome("Panic", <<>>, one.leds)
             ELSE set_vertices_from(one.leds, vertices, from + 1, color)

set_vertices(buffer, vertices, color) == set_vertices_from(buffer, vertices, 0, color)

\* Sled::for_each_vertex: for i in &self.vertex_indices { f(&mut self.leds[*i]) },
\* with a closure that recolours the LED by `rule`.
RECURSIVE for_each_vertex_from(_, _, _, _)
for_each_vertex_from(buffer, vertices, from, rule) ==
    IF from >= Len(vertices) THEN Outcome("Ok", <<>>, buffer)
    ELSE LET i == At(vertices, from)
         IN  IF i >= Len(buffer) THEN Outcome("Panic", <<>>, buffer)
             ELSE for_each_vertex_from(
                      with_color(buffer, i, color_rule(rule, At(buffer, i))),
                      vertices, from + 1, rule)

for_each_vertex(buffer, vertices, rule) == for_each_vertex_from(buffer, vertices, 0, rule)

\* Sled::get_vertices: self.get(*led_index).unwrap() for each vertex.
get_vertices(buffer, vertices) ==
    IF \E k \in 1..Len(vertices) : get(buffer, vertices[k]).tag = "None"
    THEN Outcome("Panic", <<>>, buffer)
    ELSE Outcome("Some", vertices, buffer)

\* Vec::swap_remove(i): the element at i is taken out and the last element
\* takes its place; <<>> stands for the panic on an i past the end.
swap_remove(everything, i) ==
    IF i >= Len(everything) THEN <<>>
    ELSE << At(everything, i),
            [k \in 1..(Len(everything) - 1) |->
                IF k = i + 1 THEN everything[Len(everything)]
                ELSE everything[k]] >>

\* The loop of Sled::get_vertices_mut over the vertex table in reverse,
\* from its entry `k` down: each reference is taken out of `everything`
\* with swap_remove and pushed on `taken`.
RECURSIVE take_vertices(_, _, _, _)
take_vertices(everything, vertices, k, taken) ==
    IF k = 0 THEN <<"Some", taken>>
    ELSE IF swap_remove(everything, vertices[k]) = <<>> THEN <<"Panic", <<>>>>
    ELSE take_vertices(swap_remove(everything, vertices[k])[2], vertices, k - 1,
                       Append(taken, swap_remove(everything, vertices[k])[1]))

\* vertices.reverse().
reverse(list) == [k \in 1..Len(list) |-> list[Len(list) + 1 - k]]

\* Sled::get_vertices_mut: a reference to every LED is collected, the
\* vertices are taken out of that list, and the list taken is reversed.
\* A reference is the buffer position it points to.
get_vertices_mut(buffer, vertices) ==
    Outcome(take_vertices([p \in 1..Len(buffer) |-> p - 1], vertices,
                          Len(vertices), <<>>)[1],
            reverse(take_vertices([p \in 1..Len(buffer) |-> p - 1], vertices,
                                  Len(vertices), <<>>)[2]),
            buffer)

(***************************************************************************)
(* Whole-buffer methods.                                                   *)
(***************************************************************************)
\* Faulty variant of set_all: the buffer is refilled with recoloured copies
\* of its first LED.
set_all_refill(buffer, color) ==
    Outcome("Ok", <<>>,
            [p \in 1..Len(buffer) |-> [buffer[1] EXCEPT !.color = color]])

\* Sled::set_all: for led in &mut self.leds { led.color = color }.
set_all(buffer, color) ==
    Outcome("Ok", <<>>, set_slice(buffer, 0, Len(buffer), color))

(***************************************************************************)
(* Geometry.  A parameter along a segment (t, alpha) is kept as the exact  *)
(* fraction <<numerator, denominator>> with a positive denominator.        *)
(***************************************************************************)
Sub(a, b) == <<a[1] - b[1], a[2] - b[2]>>
Dot(a, b) == a[1] * b[1] + a[2] * b[2]
Cross(a, b) == a[1] * b[2] - a[2] * b[1]

Fraction(num, den) == IF den < 0 THEN <<-num, -den>> ELSE <<num, den>>
InUnit(x) == 0 <= x[1] /\ x[1] <= x[2]

\* Vec2::from_angle(angle): (cos, sin) of `angle` quarter turns.
from_angle(angle) ==
    CASE angle = 0 -> <<1, 0>>
      [] angle = 1 -> <<0, 1>>
      [] angle = 2 -> <<-1, 0>>
      [] angle = 3 -> <<0, -1>>

\* LineSegment::intersects_line: where along this segment the finite line
\* from other_start to other_end crosses it, <<t>>, or <<>> when it does
\* not (parallel lines do not cross).
intersects_line(segment, other_start, other_end) ==
    LET r   == Sub(segment.end, segment.start)
        s   == Sub(other_end, other_start)
        w   == Sub(other_start, segment.start)
        rxs == Cross(r, s)
    IN  IF rxs = 0 THEN <<>>
        ELSE LET t == Fraction(Cross(w, s), rxs)
                 u == Fraction(Cross(w, r), rxs)
             IN  IF InUnit(t) /\ InUnit(u) THEN <<t>> ELSE <<>>

\* Sled::alpha_to_index:
\* startpoint_index + (segment_alpha * leds_in_segment).floor() as usize.
alpha_to_index(lines, table, alpha, segment_index) ==
    At(table, segment_index)[1]
        + (alpha[1] * num_leds(At(lines, segment_index))) \div alpha[2]

\* let dist = 100_000.0 in Sled::raycast_for_index.
raycast_dist == 100000

\* Faulty variant of raycast_from: the search does not stop at the first
\* segment the ray crosses, so the last one in layout order wins.
RECURSIVE raycast_from_last(_, _, _, _, _)
raycast_from_last(lines, table, start, end, index) ==
    IF index >= Len(lines) THEN <<>>
    ELSE IF raycast_from_last(lines, table, start, end, index + 1) # <<>>
    THEN raycast_from_last(lines, table, start, end, index + 1)
    ELSE IF intersects_line(At(lines, index), start, end) # <<>>
    THEN <<alpha_to_index(lines, table,
                          intersects_line(At(lines, index), start, end)[1],
                          index)>>
    ELSE <<>>

\* The loop of Sled::raycast_for_index from segment `index` on: the first
\* segment in layout order that the ray crosses ends the search.
RECURSIVE raycast_from(_, _, _, _, _)
raycast_from(lines, table, start, end, index) ==
    IF index >= Len(lines) THEN <<>>
    ELSE LET t == intersects_line(At(lines, index), start, end)
         IN  IF t # <<>>
             THEN <<alpha_to_index(lines, table, t[1], index)>>
             ELSE raycast_from(lines, table, start, end, index + 1)

\* Faulty variant of raycast_for_index: a ray that crosses no segment is
\* answered with the first LED.
raycast_for_index_or_first(lines, table, start, dir) ==
    LET hit == raycast_from(lines, table, start,
                            <<start[1] + dir[1] * raycast_dist,
                              start[2] + dir[2] * raycast_dist>>, 0)
    IN  IF hit = <<>> THEN <<0>> ELSE hit

\* Sled::raycast_for_index: <<index>> or <<>>.
raycast_for_index(lines, table, start, dir) ==
    raycast_from(lines, table, start,
                 <<start[1] + dir[1] * raycast_dist,
                   start[2] + dir[2] * raycast_dist>>, 0)

\* Sled::get_at_dir_from.
get_at_dir_from(buffer, lines, table, center, dir) ==
    LET index_of_closest == raycast_for_index(lines, table, center, dir)
    IN  IF index_of_closest = <<>> THEN Outcome("None", <<>>, buffer)
        ELSE get(buffer, index_of_closest[1])

\* Sled::get_at_dir.
get_at_dir(buffer, lines, table, center, dir) ==
    get_at_dir_from(buffer, lines, table, center, dir)

\* Sled::get_at_angle.
get_at_angle(buffer, lines, table, center, angle) ==
    get_at_dir(buffer, lines, table, center, from_angle(angle))

\* Sled::get_at_dir_mut.
get_at_dir_mut(buffer, lines, table, center, dir) ==
    LET index_of_closest == raycast_for_index(lines, table, center, dir)
    IN  IF index_of_closest = <<>> THEN Outcome("None", <<>>, buffer)
        ELSE get(buffer, index_of_closest[1])

\* Sled::set_at_dir.
set_at_dir(buffer, lines, table, center, dir, color) ==
    LET led == get_at_dir_mut(buffer, lines, table, center, dir)
    IN  IF led.tag = "None" THEN Outcome("Err", <<>>, buffer)
        ELSE Outcome("Ok", <<>>, with_color(buffer, led.val[1], color))

\* Sled::set_at_angle, through get_at_angle_mut, get_at_angle_from_mut and
\* get_at_dir_from_mut.
set_at_angle(buffer, lines, table, center, angle, color) ==
    LET led == get_at_dir_from(buffer, lines, table, center,
                               from_angle(angle))
    IN  IF led.tag = "None" THEN Outcome("Err", <<>>, buffer)
        ELSE Outcome("Ok", <<>>, with_color(buffer, led.val[1], color))

(***************************************************************************)
(* Position- and distance-based methods.                                   *)
(***************************************************************************)
Less(x, y) == x[1] * y[2] < y[1] * x[2]
Min(x, y) == IF y < x THEN y ELSE x
Max(x, y) == IF y > x THEN y ELSE x

\* f32::sqrt, on the perfect squares the input domains produce.
Sqrt(x) == CHOOSE root \in 0..x : root * root = x

\* LineSegment::closest_to_point: the point of the segment nearest to pos,
\* as its parameter alpha (the projection of pos, clamped to [0, 1]), and
\* the squared distance from that point to pos.
closest_to_point(segment, pos) ==
    LET r   == Sub(segment.end, segment.start)
        den == Dot(r, r)
        num == Max(0, Min(den, Dot(Sub(pos, segment.start), r)))
        off == <<den * (segment.start[1] - pos[1]) + num * r[1],
                 den * (segment.start[2] - pos[2]) + num * r[2]>>
    IN  [alpha |-> <<num, den>>, dist_sq |-> <<Dot(off, off), den * den>>]

\* Sled::get_index_of_closest_to: min_by keeps the first of equal minima.
get_index_of_closest_to(lines, table, pos) ==
    LET dist_sq(i) == closest_to_point(At(lines, i), pos).dist_sq
        best == CHOOSE i \in 0..(Len(lines) - 1) :
                    \A j \in 0..(Len(lines) - 1) :
                        \/ Less(dist_sq(i), dist_sq(j))
                        \/ ~Less(dist_sq(j), dist_sq(i)) /\ i <= j
    IN  alpha_to_index(lines, table,
                       closest_to_point(At(lines, best), pos).alpha, best)

\* Sled::get_closest_to: self.get(index_of_closest).unwrap().
get_closest_to(buffer, lines, table, pos) ==
    IF get(buffer, get_index_of_closest_to(lines, table, pos)).tag = "None"
    THEN Outcome("Panic", <<>>, buffer)
    ELSE get(buffer, get_index_of_closest_to(lines, table, pos))

\* Sled::set_closest_to: self.get_mut(index_of_closest).unwrap().color = color.
set_closest_to(buffer, lines, table, pos, color) ==
    LET index_of_closest == get_index_of_closest_to(lines, table, pos)
    IN  IF get(buffer, index_of_closest).tag = "None"
        THEN Outcome("Panic", <<>>, buffer)
        ELSE Outcome("Ok", <<>>, with_color(buffer, index_of_closest, color))

\* The roots of a * t^2 + b * t + c = 0, lower root first, or <<>> when
\* there is none.
quadratic_roots(a, b, c) ==
    IF b * b - 4 * a * c < 0 THEN <<>>
    ELSE << <<-b - Sqrt(b * b - 4 * a * c), 2 * a>>,
            <<-b + Sqrt(b * b - 4 * a * c), 2 * a>> >>

\* The roots of |start + t * (end - start) - pos|^2 = dist^2: where the
\* segment's line crosses the circle of radius dist around pos.
circle_roots(segment, pos, dist) ==
    quadratic_roots(
        Dot(Sub(segment.end, segment.start), Sub(segment.end, segment.start)),
        2 * Dot(Sub(segment.end, segment.start), Sub(segment.start, pos)),
        Dot(Sub(segment.start, pos), Sub(segment.start, pos)) - dist * dist)

\* The roots that lie on the segment; a double root counts once.
roots_on_segment(roots) ==
    IF roots = <<>> THEN <<>>
    ELSE IF roots[1] = roots[2] THEN SelectSeq(<<roots[1]>>, InUnit)
    ELSE SelectSeq(roots, InUnit)

\* LineSegment::intersects_circle: the parameters in [0, 1] at which the
\* segment crosses the circle of radius dist around pos (0, 1 or 2 roots).
intersects_circle(segment, pos, dist) ==
    roots_on_segment(circle_roots(segment, pos, dist))

\* The part of the segment between the two roots, cut to [0, 1].
span_on_segment(roots) ==
    IF roots = <<>> THEN <<>>
    ELSE IF roots[2][1] < 0 \/ roots[1][1] > roots[1][2] THEN <<>>
    ELSE << IF roots[1][1] < 0 THEN <<0, 1>> ELSE roots[1],
            IF roots[2][1] > roots[2][2] THEN <<1, 1>> ELSE roots[2] >>

\* LineSegment::intersects_solid_circle: the part of the segment inside the
\* disk, as its entry and exit parameters, or <<>> when the segment lies
\* outside the disk.
intersects_solid_circle(segment, pos, dist) ==
    span_on_segment(circle_roots(segment, pos, dist))

\* alpha_to_index of each alpha of one segment.
indices_of_alphas(lines, table, alphas, segment_index) ==
    [k \in 1..Len(alphas) |->
        alpha_to_index(lines, table, alphas[k], segment_index)]

\* The loops of Sled::get_at_dist_from from segment `segment_index` on:
\* alpha_to_index of every alpha of every segment.
RECURSIVE indices_at_dist_from(_, _, _, _, _)
indices_at_dist_from(lines, table, pos, dist, segment_index) ==
    IF segment_index >= Len(lines) THEN <<>>
    ELSE indices_of_alphas(
             lines, table,
             intersects_circle(At(lines, segment_index), pos, dist),
             segment_index)
         \o indices_at_dist_from(lines, table, pos, dist, segment_index + 1)

\* self.get(index).unwrap() for each index: the LEDs, or a panic when one
\* of the indices is past the buffer.
unwrap_each(buffer, indices) ==
    IF \E k \in 1..Len(indices) : get(buffer, indices[k]).tag = "None"
    THEN Outcome("Panic", <<>>, buffer)
    ELSE Outcome("Some", indices, buffer)

\* Sled::get_at_dist_from.
get_at_dist_from(buffer, lines, table, pos, dist) ==
    unwrap_each(buffer, indices_at_dist_from(lines, table, pos, dist, 0))

\* Faulty variant of filtered: one reference for each listed index, an LED
\* listed twice being handed out twice.
filtered_each_listed(buffer, found) == found

\* self.leds.iter_mut().filter(..): the LEDs whose index is among those
\* `found`, in buffer order, each of them once.
filtered(buffer, found) ==
    IF found.tag = "Panic" THEN found
    ELSE LET listed(p) == \E k \in 1..Len(found.val) :
                              found.val[k] = At(buffer, p).index
         IN  Outcome("Some",
                     SelectSeq([k \in 1..Len(buffer) |-> k - 1], listed),
                     buffer)

\* Sled::get_at_dist_from_mut.
get_at_dist_from_mut(buffer, lines, table, pos, dist) ==
    filtered(buffer, get_at_dist_from(buffer, lines, table, pos, dist))

\* The tail of set_at_dist_from and set_within_dist_from: an error when no
\* LED was found, else for led in found { led.color = color }.
set_each(buffer, found, color) ==
    IF found.tag = "Panic" THEN found
    ELSE IF found.val = <<>> THEN Outcome("Err", <<>>, buffer)
    ELSE Outcome("Ok", <<>>,
                 [p \in 1..Len(buffer) |->
                     IF \E k \in 1..Len(found.val) : found.val[k] = p - 1
                     THEN [buffer[p] EXCEPT !.color = color]
                     ELSE buffer[p]])

\* Sled::set_at_dist_from.
set_at_dist_from(buffer, lines, table, pos, dist, color) ==
    set_each(buffer,
             get_at_dist_from_mut(buffer, lines, table, pos, dist), color)

\* Sled::set_at_dist.
set_at_dist(buffer, lines, table, center, dist, color) ==
    set_at_dist_from(buffer, lines, table, center, dist, color)

\* Faulty variant of index_range: the upper index is part of the range.
index_range_inclusive(first, second) ==
    positions(Min(first, second), Max(first, second) + 1)

\* first.min(second)..first.max(second).
index_range(first, second) == positions(Min(first, second), Max(first, second))

\* The body of the loop of Sled::get_within_dist_from: the index range of
\* a segment that has both an entry and an exit parameter.
indices_within_segment(lines, table, intersections, segment_index) ==
    IF Len(intersections) >= 2
    THEN index_range(
             alpha_to_index(lines, table, intersections[1], segment_index),
             alpha_to_index(lines, table, intersections[2], segment_index))
    ELSE <<>>

\* The loop of Sled::get_within_dist_from from segment `segment_index` on.
RECURSIVE indices_within_dist_from(_, _, _, _, _)
indices_within_dist_from(lines, table, pos, dist, segment_index) ==
    IF segment_index >= Len(lines) THEN <<>>
    ELSE indices_within_segment(
             lines, table,
             intersects_solid_circle(At(lines, segment_index), pos, dist),
             segment_index)
         \o indices_within_dist_from(lines, table, pos, dist,
                                     segment_index + 1)

\* Sled::get_within_dist_from.
get_within_dist_from(buffer, lines, table, pos, dist) ==
    unwrap_each(buffer, indices_within_dist_from(lines, table, pos, dist, 0))

\* Sled::get_within_dist_from_mut.
get_within_dist_from_mut(buffer, lines, table, pos, dist) ==
    filtered(buffer, get_within_dist_from(buffer, lines, table, pos, dist))

\* Sled::set_within_dist_from.
set_within_dist_from(buffer, lines, table, pos, dist, color) ==
    set_each(buffer,
             get_within_dist_from_mut(buffer, lines, table, pos, dist), color)

\* Sled::set_within_dist.
set_within_dist(buffer, lines, table, center, dist, color) ==
    set_within_dist_from(buffer, lines, table, center, dist, color)

(***************************************************************************)
(* The driver's Data store: a BTreeMap from keys to boxed values of any    *)
(* type.  A stored value is kept with its type, which is what the downcast *)
(* looks at.                                                               *)
(***************************************************************************)
\* Keys of 3, 23 and 24 bytes.
DataKeys == {"abc", "abcdefghijklmnopqrstuvw", "abcdefghijklmnopqrstuvwx"}

\* key.len().
key_len(key) ==
    CASE key = "abc" -> 3
      [] key = "abcdefghijklmnopqrstuvw" -> 23
      [] key = "abcdefghijklmnopqrstuvwx" -> 24

\* The types T of the values stored and asked for, and their values.
DataTypes == {"i32", "bool"}
DataValues == 0..1

\* DataWrapper::new(value), boxed: the value together with its type.
DataWrapper(type, value) == [type |-> type, value |-> value]

\* Data::new.
new_data == [key \in {} |-> DataWrapper("i32", 0)]

\* The messages of the errors get and get_mut return, without the key and
\* the type name that are filled in.
NoDataMessage == "No data associated with the key"
GetTypeMessage ==
    "Data associated with the key exists, but it is not of type"
GetMutTypeMessage == "Data with the key exists but it is not of type"

\* A call's outcome on the store: val is the value or the error message.
DataOutcome(tag, val, store) == [tag |-> tag, val |-> val, data |-> store]

\* Faulty variant of data_get: a value of another type is reported as
\* missing.
data_get_conflated(store, key, type) ==
    IF key \notin DOMAIN store \/ store[key].type # type
    THEN DataOutcome("Err", NoDataMessage, store)
    ELSE DataOutcome("Ok", store[key].value, store)

\* Data::get::<T>.
data_get(store, key, type) ==
    IF key \notin DOMAIN store
    THEN DataOutcome("Err", NoDataMessage, store)
    ELSE IF store[key].type # type
         THEN DataOutcome("Err", GetTypeMessage, store)
         ELSE DataOutcome("Ok", store[key].value, store)

\* Data::get_mut::<T>.
data_get_mut(store, key, type) ==
    IF key \notin DOMAIN store
    THEN DataOutcome("Err", NoDataMessage, store)
    ELSE IF store[key].type # type
         THEN DataOutcome("Err", GetMutTypeMessage, store)
         ELSE DataOutcome("Ok", store[key].value, store)

\* Faulty variant of insert: a key that is present keeps its value.
insert_if_vacant(store, key, wrapper) ==
    [k \in DOMAIN store \cup {key} |->
        IF k \in DOMAIN store THEN store[k] ELSE wrapper]

\* BTreeMap::insert(key.to_compact_string(), ..): the key's entry is added
\* or replaced.
insert(store, key, wrapper) ==
    [k \in DOMAIN store \cup {key} |-> IF k = key THEN wrapper ELSE store[k]]

\* Data::set::<T>: the assertion on the key length, then the insert.
data_set(store, key, type, value) ==
    IF ~(key_len(key) < 24) THEN DataOutcome("Panic", <<>>, store)
    ELSE DataOutcome("Ok", <<>>, insert(store, key, DataWrapper(type, value)))

\* Data::store::<T>: as set, then self.get_mut(key).unwrap().
data_store(store, key, type, value) ==
    IF ~(key_len(key) < 24) THEN DataOutcome("Panic", <<>>, store)
    ELSE LET stored == insert(store, key, DataWrapper(type, value))
             found  == data_get_mut(stored, key, type)
         IN  IF found.tag = "Err" THEN DataOutcome("Panic", <<>>, stored)
             ELSE found

(***************************************************************************)
(* The room controller of the first revision (crates/slc): strips of LEDs  *)
(* along the walls of a room, one density for all of them, and a view      *)
(* position the rays are cast from.  A Color is its three channels; a      *)
(* fractional LED count is an exact fraction.                              *)
(***************************************************************************)
\* The strips a room file may list: three walls of a 4 x 2 room.
StripChoices ==
    [ bottom |-> << <<0, 0>>, <<4, 0>> >>,
      right  |-> << <<4, 0>>, <<4, 2>> >>,
      top    |-> << <<4, 2>>, <<0, 2>> >> ]

Rooms == { <<StripChoices.bottom>>,
           <<StripChoices.bottom, StripChoices.right>>,
           <<StripChoices.top, StripChoices.bottom>> }

\* RoomData::density(): one LED every two units.
RoomDensities == { <<1, 2>> }

\* RoomData::view_pos(): a point inside the room.
ViewPositions == { <<1, 1>>, <<2, 1>>, <<3, 1>> }

\* The directions rays are cast in, and the colors written.
RoomDirs == { <<1, 0>>, <<0, 1>>, <<-1, 0>>, <<0, -1>>, <<1, 1>>, <<-1, -1>> }
black == <<0, 0, 0>>
RoomColors == { <<0, 255, 0>> }

\* Arithmetic on fractions.
Plus(x, y) == <<x[1] * y[2] + y[1] * x[2], x[2] * y[2]>>
Times(x, y) == <<x[1] * y[1], x[2] * y[2]>>
Floor(x) == x[1] \div x[2]

\* Strip::len: the distance between the strip's two ends (axis-aligned).
strip_len(strip) ==
    Abs(strip[2][1] - strip[1][1]) + Abs(strip[2][2] - strip[1][2])

\* The number of LEDs of a room: strip.len() * density, added up.
room_led_count(strips, density) ==
    LET RECURSIVE upto(_)
        upto(n) == IF n = 0 THEN 0
                   ELSE upto(n - 1)
                          + Floor(Times(<<strip_len(strips[n]), 1>>, density))
    IN  upto(Len(strips))

\* RoomData::new_from_file: every LED black.
new_room_data(strips, density, view_pos) ==
    [ strips   |-> strips,
      density  |-> density,
      view_pos |-> view_pos,
      leds     |-> [p \in 1..room_led_count(strips, density) |-> black] ]

\* Strip::intersects: the point where the line crosses the strip, <<point>>
\* with both coordinates as fractions, or <<>>.
point_at(strip, t) ==
    << <<strip[1][1] * t[2] + t[1] * (strip[2][1] - strip[1][1]), t[2]>>,
       <<strip[1][2] * t[2] + t[1] * (strip[2][2] - strip[1][2]), t[2]>> >>

strip_intersects(strip, line) ==
    IF intersects_line([start |-> strip[1], end |-> strip[2]],
                       line[1], line[2]) = <<>>
    THEN <<>>
    ELSE << point_at(strip,
                     intersects_line([start |-> strip[1], end |-> strip[2]],
                                     line[1], line[2])[1]) >>

\* reverse_lerp(a, b, c): the t with lerp(a, b, t) = c.
reverse_lerp(a, b, c) ==
    IF a[1] # b[1]
    THEN Fraction(c[1][1] - a[1] * c[1][2], c[1][2] * (b[1] - a[1]))
    ELSE Fraction(c[2][1] - a[2] * c[2][2], c[2][2] * (b[2] - a[2]))

\* let dist = 100.0 in RoomController::get_led_at_room_dir.
room_dist == 100

\* The loop of get_led_at_room_dir from strip `strip_index` on, led_count
\* being the LEDs of the strips passed: the first strip the ray crosses
\* ends the search.
RECURSIVE first_strip_hit(_, _, _, _, _)
first_strip_hit(strips, density, line, strip_index, led_count) ==
    IF strip_index >= Len(strips) THEN <<>>
    ELSE IF strip_intersects(At(strips, strip_index), line) # <<>>
    THEN << [ intersection |-> strip_intersects(At(strips, strip_index),
                                                line)[1],
              strip_index  |-> strip_index,
              led_count    |-> led_count ] >>
    ELSE first_strip_hit(
             strips, density, line, strip_index + 1,
             Plus(led_count,
                  Times(<<strip_len(At(strips, strip_index)), 1>>, density)))

\* Faulty variant of led_count_of_hit: the count is not taken back by one.
led_count_of_hit_not_lowered(led_count) == led_count

\* if led_count > 0.0 { led_count -= 1.0 }.
led_count_of_hit(led_count) ==
    IF led_count[1] > 0 THEN Plus(led_count, <<-1, 1>>) ELSE led_count

\* `led_count as usize`: towards zero, and 0 for a negative count.
as_usize(x) == IF x[1] < 0 THEN 0 ELSE Floor(x)

\* let occupancy = 1.0 - (led_count - led_count.floor());
\* Some((led_count as usize, occupancy)).
led_and_occupancy(led_count) ==
    << as_usize(led_count),
       Plus(<<1, 1>>, Plus(<<Floor(led_count), 1>>,
                           <<-led_count[1], led_count[2]>>)) >>

\* The end of get_led_at_room_dir, for the strip that was hit.
led_of_hit(strips, density, hit) ==
    led_and_occupancy(
        led_count_of_hit(
            Plus(hit.led_count,
                 Times(Times(reverse_lerp(At(strips, hit.strip_index)[1],
                                          At(strips, hit.strip_index)[2],
                                          hit.intersection),
                             density),
                       <<strip_len(At(strips, hit.strip_index)), 1>>))))

\* RoomController::get_led_at_room_dir: <<id, occupancy>> or <<>>.
get_led_at_room_dir(room, dir) ==
    IF first_strip_hit(room.strips, room.density,
                       << room.view_pos,
                          <<room.view_pos[1] + dir[1] * room_dist,
                            room.view_pos[2] + dir[2] * room_dist>> >>,
                       0, <<0, 1>>) = <<>>
    THEN <<>>
    ELSE led_of_hit(room.strips, room.density,
                    first_strip_hit(room.strips, room.density,
                                    << room.view_pos,
                                       <<room.view_pos[1] + dir[1] * room_dist,
                                         room.view_pos[2] + dir[2] * room_dist>> >>,
                                    0, <<0, 1>>)[1])

\* A call's outcome on the room controller.
RoomOutcome(tag, val, room) == [tag |-> tag, val |-> val, room |-> room]

\* RoomData::set_led: self.leds[index] = color.
set_led(room, index, color) ==
    IF index >= Len(room.leds) THEN RoomOutcome("Panic", <<>>, room)
    ELSE RoomOutcome("Ok", <<>>,
                     [room EXCEPT !.leds = [@ EXCEPT ![index + 1] = color]])

\* RoomController::set.
room_set(room, index, color) == set_led(room, index, color)

\* RoomController::set_all.
room_set_all(room, color) ==
    RoomOutcome("Ok", <<>>,
                [room EXCEPT !.leds = [p \in 1..Len(room.leds) |-> color]])

\* RoomController::get_color_at_room_dir: black when the ray misses.
get_color_at_room_dir(room, dir) ==
    IF get_led_at_room_dir(room, dir) = <<>>
    THEN RoomOutcome("Ok", black, room)
    ELSE IF get_led_at_room_dir(room, dir)[1] >= Len(room.leds)
    THEN RoomOutcome("Panic", <<>>, room)
    ELSE RoomOutcome("Ok", At(room.leds, get_led_at_room_dir(room, dir)[1]),
                     room)

\* (color.0 as f32 * occupancy) as u8, for each channel.
scaled(color, occupancy) ==
    << (color[1] * occupancy[1]) \div occupancy[2],
       (color[2] * occupancy[1]) \div occupancy[2],
       (color[3] * occupancy[1]) \div occupancy[2] >>

\* The body of `if let Some((id, occupancy))` in set_at_room_dir.
set_led_and_next(room, id, occupancy, color) ==
    IF set_led(room, id, scaled(color, occupancy)).tag = "Panic"
    THEN RoomOutcome("Panic", <<>>, room)
    ELSE IF id + 1 < Len(room.leds)
    THEN set_led(set_led(room, id, scaled(color, occupancy)).room, id + 1,
                 scaled(color, Plus(<<1, 1>>,
                                    <<-occupancy[1], occupancy[2]>>)))
    ELSE set_led(room, id, scaled(color, occupancy))

\* RoomController::set_at_room_dir.
set_at_room_dir(room, dir, color) ==
    IF get_led_at_room_dir(room, dir) = <<>>
    THEN RoomOutcome("Ok", <<>>, room)
    ELSE set_led_and_next(room, get_led_at_room_dir(room, dir)[1],
                          get_led_at_room_dir(room, dir)[2], color)

\* RoomController::set_at_room_angle: room_dir = (angle.cos(), angle.sin()).
set_at_room_angle(room, angle, color) ==
    set_at_room_dir(room, from_angle(angle), color)

(***************************************************************************)
(* The state machine.                                                      *)
(***************************************************************************)
\* No input device has been started: nobody holds the lock.
NoDevice ==
    /\ lock = [readers |-> {}, writer |-> {}]
    /\ sweep = [pc |-> "idle", last |-> 0, duration |-> 0]

\* No room controller has been made.
NoRoom ==
    /\ room_data = [strips |-> <<>>, density |-> <<0, 1>>,
                    view_pos |-> <<0, 0>>, leds |-> <<>>]
    /\ NoDevice

\* No Sled has been built.
NoSled ==
    /\ line_segments = <<>>
    /\ leds = <<>>
    /\ line_segment_endpoint_indices = <<>>
    /\ vertex_indices = <<>>
    /\ center_point = <<0, 0>>
    /\ data = new_data

\* No configuration file is being parsed; DEFAULT_DENSITY has its initial
\* value 0.0.
NoParse ==
    /\ DEFAULT_DENSITY = 0
    /\ parses = <<>>

Init ==
    /\ line_segments \in Layouts
    /\ leds = build_led_list(leds_per_segment(line_segments), line_segments)
    /\ line_segment_endpoint_indices =
           build_line_segment_endpoint_indices(leds_per_segment(line_segments))
    /\ vertex_indices = build_vertex_indices(line_segments)
    /\ center_point \in CenterPoints
    /\ data = new_data
    /\ NoRoom
    /\ NoParse
    /\ op = "new"
    /\ result = "Ok"

\* A Sled exists: construction is over and did not fail.
Constructed == op # "config" /\ ~(op = "new" /\ result = "Err")

\* A method call that ended with outcome `out`.  A panic ends the program.
Call(name, out) ==
    /\ Constructed
    /\ result # "Panic"
    /\ op' = name
    /\ result' = out.tag
    /\ leds' = out.leds
    /\ UNCHANGED <<line_segments, line_segment_endpoint_indices, vertex_indices,
                   center_point, data, room_vars, config_vars>>

\* Arguments run one past the last valid value, so that every bounds check
\* is exercised on both sides.
IndexArgs == 0..Len(leds)
RangeArgs == 0..(Len(leds) + 1)
SegmentArgs == 0..Len(line_segment_endpoint_indices)
SegmentRangeArgs == 0..(Len(line_segment_endpoint_indices) + 1)
VertexArgs == 0..Len(vertex_indices)

Get == \E index \in IndexArgs : Call("get", get(leds, index))

Set == \E index \in IndexArgs, color \in Colors :
           Call("set", set(leds, index, color))

GetRange == \E start \in RangeArgs, end \in RangeArgs :
                Call("get_range", get_range(leds, start, end))

SetRange == \E start \in RangeArgs, end \in RangeArgs, color \in Colors :
                Call("set_range", set_range(leds, start, end, color))

GetSegment == \E segment_index \in SegmentArgs :
    Call("get_segment",
         get_segment(leds, line_segment_endpoint_indices, segment_index))

SetSegment == \E segment_index \in SegmentArgs, color \in Colors :
    Call("set_segment",
         set_segment(leds, line_segment_endpoint_indices, segment_index, color))

ModulateSegment == \E segment_index \in SegmentArgs, rule \in ColorRules :
    Call("modulate_segment",
         modulate_segment(leds, line_segment_endpoint_indices,
                          segment_index, rule))

ForEachInSegment == \E segment_index \in SegmentArgs, f \in SegmentFuncs :
    Call("for_each_in_segment",
         for_each_in_segment(leds, line_segment_endpoint_indices,
                             segment_index, f))

Segments == \E range_start \in SegmentRangeArgs, range_end \in SegmentRangeArgs :
    Call("segments",
         segments(leds, line_segment_endpoint_indices, range_start, range_end))

SetSegments ==
    \E range_start \in SegmentRangeArgs, range_end \in SegmentRangeArgs,
       color \in Colors :
        Call("set_segments",
             set_segments(leds, line_segment_endpoint_indices,
                          range_start, range_end, color))

ModulateSegments ==
    \E range_start \in SegmentRangeArgs, range_end \in SegmentRangeArgs,
       rule \in ColorRules :
        Call("modulate_segments",
             modulate_segments(leds, line_segment_endpoint_indices,
                               range_start, range_end, rule))

GetVertex == \E vertex_index \in VertexArgs :
    Call("get_vertex", get_vertex(leds, vertex_indices, vertex_index))

Vertex == \E vertex_index \in VertexArgs :
    Call("vertex", vertex(leds, vertex_indices, vertex_index))

ModulateVertex == \E vertex_index \in VertexArgs, rule \in ColorRules :
    Call("modulate_vertex",
         modulate_vertex(leds, vertex_indices, vertex_index, rule))

SetVertex == \E vertex_index \in VertexArgs, color \in Colors :
    Call("set_vertex", set_vertex(leds, vertex_indices, vertex_index, color))

GetVertices == Call("get_vertices", get_vertices(leds, vertex_indices))

GetVerticesMut ==
    Call("get_vertices_mut", get_vertices_mut(leds, vertex_indices))

SetVertices == \E color \in Colors :
    Call("set_vertices", set_vertices(leds, vertex_indices, color))

ForEachVertex == \E rule \in ColorRules :
    Call("for_each_vertex", for_each_vertex(leds, vertex_indices, rule))

SetAll == \E color \in Colors : Call("set_all", set_all(leds, color))

GetAtDirFrom == \E pos \in QueryPoints, dir \in Dirs :
    Call("get_at_dir_from",
         get_at_dir_from(leds, line_segments, line_segment_endpoint_indices,
                         pos, dir))

GetAtDir == \E dir \in Dirs :
    Call("get_at_dir",
         get_at_dir(leds, line_segments, line_segment_endpoint_indices,
                    center_point, dir))

GetAtAngle == \E angle \in Angles :
    Call("get_at_angle",
         get_at_angle(leds, line_segments, line_segment_endpoint_indices,
                      center_point, angle))

SetAtDir == \E dir \in Dirs, color \in Colors :
    Call("set_at_dir",
         set_at_dir(leds, line_segments, line_segment_endpoint_indices,
                    center_point, dir, color))

SetAtAngle == \E angle \in Angles, color \in Colors :
    Call("set_at_angle",
         set_at_angle(leds, line_segments, line_segment_endpoint_indices,
                      center_point, angle, color))

GetClosestTo == \E pos \in QueryPoints :
    Call("get_closest_to",
         get_closest_to(leds, line_segments, line_segment_endpoint_indices,
                        pos))

SetClosestTo == \E pos \in QueryPoints, color \in Colors :
    Call("set_closest_to",
         set_closest_to(leds, line_segments, line_segment_endpoint_indices,
                        pos, color))

GetAtDistFrom == \E pos \in QueryPoints, dist \in Dists :
    Call("get_at_dist_from",
         get_at_dist_from(leds, line_segments, line_segment_endpoint_indices,
                          pos, dist))

GetAtDistFromMut == \E pos \in QueryPoints, dist \in Dists :
    Call("get_at_dist_from_mut",
         get_at_dist_from_mut(leds, line_segments,
                              line_segment_endpoint_indices, pos, dist))

SetAtDist == \E dist \in Dists, color \in Colors :
    Call("set_at_dist",
         set_at_dist(leds, line_segments, line_segment_endpoint_indices,
                     center_point, dist, color))

GetWithinDistFrom == \E pos \in QueryPoints, dist \in Dists :
    Call("get_within_dist_from",
         get_within_dist_from(leds, line_segments,
                              line_segment_endpoint_indices, pos, dist))

GetWithinDistFromMut == \E pos \in QueryPoints, dist \in Dists :
    Call("get_within_dist_from_mut",
         get_within_dist_from_mut(leds, line_segments,
                                  line_segment_endpoint_indices, pos, dist))

SetWithinDist == \E dist \in Dists, color \in Colors :
    Call("set_within_dist",
         set_within_dist(leds, line_segments, line_segment_endpoint_indices,
                         center_point, dist, color))

\* A call on the Data store that ended with outcome `out`.
DataCall(name, out) ==
    /\ result # "Panic"
    /\ op' = name
    /\ result' = out.tag
    /\ data' = out.data
    /\ UNCHANGED <<line_segments, leds, line_segment_endpoint_indices,
                   vertex_indices, center_point, room_vars, config_vars>>

DataGet == \E key \in DataKeys, type \in DataTypes :
    DataCall("Data::get", data_get(data, key, type))

DataGetMut == \E key \in DataKeys, type \in DataTypes :
    DataCall("Data::get_mut", data_get_mut(data, key, type))

DataSet == \E key \in DataKeys, type \in DataTypes, value \in DataValues :
    DataCall("Data::set", data_set(data, key, type, value))

DataStore == \E key \in DataKeys, type \in DataTypes, value \in DataValues :
    DataCall("Data::store", data_store(data, key, type, value))

Next ==
    \/ Get \/ Set
    \/ GetRange \/ SetRange
    \/ GetSegment \/ SetSegment \/ ModulateSegment \/ ForEachInSegment
    \/ Segments \/ SetSegments \/ ModulateSegments
    \/ GetVertex \/ Vertex \/ ModulateVertex \/ SetVertex
    \/ GetVertices \/ GetVerticesMut \/ SetVertices \/ ForEachVertex
    \/ SetAll
    \/ GetAtDirFrom \/ GetAtDir \/ GetAtAngle \/ SetAtDir \/ SetAtAngle
    \/ GetClosestTo \/ SetClosestTo
    \/ GetAtDistFrom \/ GetAtDistFromMut \/ SetAtDist
    \/ GetWithinDistFrom \/ GetWithinDistFromMut \/ SetWithinDist

Spec == Init /\ [][Next]_vars

\* The calls on the driver's Data store.
NextData == DataGet \/ DataGetMut \/ DataSet \/ DataStore

SpecData == Init /\ [][NextData]_vars

(***************************************************************************)
(* Construction as a step of its own, over every configuration a file may  *)
(* hold: the layouts above, the empty segment list, and layouts with a     *)
(* segment of negative density.                                            *)
(***************************************************************************)
NegativeDensitySegment == [start |-> <<0, 1>>, end |-> <<0, 0>>, density |-> -1]

ConfigLayouts ==
    { layout \in UNION { [1..n -> SegmentChoices \cup {NegativeDensitySegment}] :
                             n \in 0..MaxSegs } :
        \A j, k \in 1..Len(layout) : layout[j] = layout[k] => j = k }

\* Config::from_toml_file has returned: an error for a file that cannot be
\* read or parsed, or the parsed Config.
InitNew ==
    /\ op = "config"
    /\ \/ result = "Err" /\ line_segments = <<>>
       \/ result = "Ok" /\ line_segments \in ConfigLayouts
    /\ center_point \in CenterPoints
    /\ leds = <<>>
    /\ line_segment_endpoint_indices = <<>>
    /\ vertex_indices = <<>>
    /\ data = new_data
    /\ NoRoom
    /\ NoParse

\* Sled::new: `Config::from_toml_file(path)?`, then the buffer and the two
\* tables are built from the Config and Ok(Sled { .. }) is returned.
New ==
    /\ op = "config"
    /\ op' = "new"
    /\ IF result = "Err"
       THEN /\ result' = "Err"
            /\ UNCHANGED <<leds, line_segment_endpoint_indices, vertex_indices>>
       ELSE /\ result' = "Ok"
            /\ leds' = build_led_list(leds_per_segment(line_segments),
                                      line_segments)
            /\ line_segment_endpoint_indices' =
                   build_line_segment_endpoint_indices(
                       leds_per_segment(line_segments))
            /\ vertex_indices' = build_vertex_indices(line_segments)
    /\ UNCHANGED <<line_segments, center_point, data, room_vars, config_vars>>

NextNew == New \/ Get \/ Set

SpecNew == InitNew /\ [][NextNew]_vars

(***************************************************************************)
(* The room controller on its own: RoomController::new, then calls of its  *)
(* methods by the one thread that owns it.                                 *)
(***************************************************************************)
InitRoom ==
    /\ NoSled
    /\ \E strips \in Rooms, density \in RoomDensities,
          view_pos \in ViewPositions :
           room_data = new_room_data(strips, density, view_pos)
    /\ NoDevice
    /\ NoParse
    /\ op = "RoomController::new"
    /\ result = "Ok"

\* A call on the room controller that ended with outcome `out`.
RoomCall(name, out) ==
    /\ result # "Panic"
    /\ op' = name
    /\ result' = out.tag
    /\ room_data' = out.room
    /\ UNCHANGED <<line_segments, leds, line_segment_endpoint_indices,
                   vertex_indices, center_point, data, lock, sweep,
                   config_vars>>

RoomSet == \E index \in 0..Len(room_data.leds), color \in RoomColors :
    RoomCall("RoomController::set", room_set(room_data, index, color))

RoomSetAll == \E color \in RoomColors \cup {black} :
    RoomCall("RoomController::set_all", room_set_all(room_data, color))

GetLedAtRoomDir == \E dir \in RoomDirs :
    RoomCall("RoomController::get_led_at_room_dir",
             RoomOutcome(IF get_led_at_room_dir(room_data, dir) = <<>>
                         THEN "None" ELSE "Some",
                         get_led_at_room_dir(room_data, dir), room_data))

GetColorAtRoomDir == \E dir \in RoomDirs :
    RoomCall("RoomController::get_color_at_room_dir",
             get_color_at_room_dir(room_data, dir))

SetAtRoomDir == \E dir \in RoomDirs, color \in RoomColors :
    RoomCall("RoomController::set_at_room_dir",
             set_at_room_dir(room_data, dir, color))

SetAtRoomAngle == \E angle \in Angles, color \in RoomColors :
    RoomCall("RoomController::set_at_room_angle",
             set_at_room_angle(room_data, angle, color))

NextRoom ==
    \/ RoomSet \/ RoomSetAll
    \/ GetLedAtRoomDir \/ GetColorAtRoomDir
    \/ SetAtRoomDir \/ SetAtRoomAngle

SpecRoom == InitRoom /\ [][NextRoom]_vars

(***************************************************************************)
(* The Sweep input device: the thread Sweep::start spawns, working on the  *)
(* RoomController behind the RwLock it shares with the display thread.     *)
(* Time is counted in steps of 0.0025 s, the pause between two sweeps.     *)
(***************************************************************************)
\* The longest time the thread is followed for.
MaxElapsed == 2

InitSweep ==
    /\ NoSled
    /\ \E strips \in Rooms, density \in RoomDensities,
          view_pos \in ViewPositions :
           room_data = new_room_data(strips, density, view_pos)
    /\ lock = [readers |-> {}, writer |-> {}]
    /\ sweep = [pc |-> "spawned", last |-> 0, duration |-> 0]
    /\ NoParse
    /\ op = "Sweep::start"
    /\ result = "Ok"

\* let controller_read = controller_copy.read().unwrap(): the read guard
\* is taken once and lives as long as the thread, `leds` borrowing from it.
SweepRead ==
    /\ sweep.pc = "spawned"
    /\ lock.writer = {}
    /\ lock' = [lock EXCEPT !.readers = @ \cup {"sweep"}]
    /\ sweep' = [sweep EXCEPT !.pc = "loop", !.last = 0]
    /\ UNCHANGED <<line_segments, leds, line_segment_endpoint_indices,
                   vertex_indices, center_point, data, room_data, config_vars,
                   op, result>>

\* The top of the loop: self.stop stays false (the device was moved into
\* the thread), the clock is read, and the body is skipped with `continue`
\* until 0.0025 s have passed since the last sweep.
SweepLoop ==
    /\ sweep.pc = "loop"
    /\ \E duration \in sweep.last..MaxElapsed :
           IF duration - sweep.last < 1
           THEN UNCHANGED sweep
           ELSE sweep' = [sweep EXCEPT !.pc = "write", !.duration = duration]
    /\ UNCHANGED <<line_segments, leds, line_segment_endpoint_indices,
                   vertex_indices, center_point, data, room_data, lock,
                   config_vars, op, result>>

\* (led.0 as f32 * 0.999) as u8, for each channel.
faded(led) ==
    << (led[1] * 999) \div 1000, (led[2] * 999) \div 1000,
       (led[3] * 999) \div 1000 >>

\* for index in 0..leds().len() { controller_write.set(index, faded) }.
fade_all(room) ==
    [room EXCEPT !.leds = [p \in 1..Len(room.leds) |-> faded(room.leds[p])]]

\* controller_copy.write().unwrap() and what follows it.  RwLock::write
\* blocks until no reader and no writer holds the lock; called by a thread
\* that holds the lock itself it never returns or panics, whichever the
\* platform's lock does; a panic ends the thread and drops its read guard.
\* With the lock in hand the thread fades every LED, lights the one in the
\* direction (x, y) of the time read, drops the guard and notes the time.
SweepWrite ==
    /\ sweep.pc = "write"
    /\ IF "sweep" \in lock.readers
       THEN /\ \E outcome \in {"blocked", "panicked"} :
                   /\ sweep' = [sweep EXCEPT !.pc = outcome]
                   /\ lock' = IF outcome = "panicked"
                              THEN [lock EXCEPT !.readers = @ \ {"sweep"}]
                              ELSE lock
            /\ UNCHANGED room_data
       ELSE /\ lock.readers = {}
            /\ lock.writer = {}
            /\ \E dir \in RoomDirs :
                   room_data' = set_at_room_dir(fade_all(room_data), dir,
                                                <<0, 255, 0>>).room
            /\ sweep' = [sweep EXCEPT !.pc = "loop", !.last = sweep.duration]
            /\ UNCHANGED lock
    /\ UNCHANGED <<line_segments, leds, line_segment_endpoint_indices,
                   vertex_indices, center_point, data, config_vars,
                   op, result>>

\* The display thread takes a read guard to show a frame.
DisplayRead ==
    /\ "display" \notin lock.readers
    /\ lock.writer = {}
    /\ lock' = [lock EXCEPT !.readers = @ \cup {"display"}]
    /\ UNCHANGED <<line_segments, leds, line_segment_endpoint_indices,
                   vertex_indices, center_point, data, room_data, sweep,
                   config_vars, op, result>>

\* The display thread drops its read guard.
DisplayDrop ==
    /\ "display" \in lock.readers
    /\ lock' = [lock EXCEPT !.readers = @ \ {"display"}]
    /\ UNCHANGED <<line_segments, leds, line_segment_endpoint_indices,
                   vertex_indices, center_point, data, room_data, sweep,
                   config_vars, op, result>>

NextSweep == SweepRead \/ SweepLoop \/ SweepWrite \/ DisplayRead \/ DisplayDrop

\* Every thread that can take a step is scheduled, and the display thread
\* does not keep its guard forever.
SpecSweep ==
    /\ InitSweep
    /\ [][NextSweep]_vars
    /\ WF_vars(SweepRead)
    /\ WF_vars(SweepLoop)
    /\ WF_vars(SweepWrite)
    /\ WF_vars(DisplayDrop)

(***************************************************************************)
(* Parsing configuration files.  Config::from_toml_file hands the file to  *)
(* serde, which deserializes `density` through set_default_density and     *)
(* then each `line_segment` table, get_default_density filling in a        *)
(* density that is left out.  Both go through the process-wide             *)
(* DEFAULT_DENSITY, which no lock protects: calls that run at the same     *)
(* time interleave access by access.                                       *)
(***************************************************************************)
\* The largest number of from_toml_file calls followed.
MaxParses == 2

\* A value written in a file: a number, or something that is not one.
Number(value) == [number |-> TRUE, value |-> value]
NotANumber == [number |-> FALSE, value |-> 0]

\* The files parsed: `density` is a number or not one, and every
\* line_segment table gives its own density, <<density>>, or leaves it
\* out, <<>>.
ConfigFiles ==
    { [readable |-> TRUE, density |-> density, line_segment |-> tables] :
          density \in {Number(1), Number(2), NotANumber},
          tables \in { << <<>> >>, << <<3>>, <<>> >> } }
    \cup { [readable |-> FALSE, density |-> Number(1), line_segment |-> <<>>] }

\* f32::deserialize(des): <<value>>, or <<>> for an error.
deserialize_f32(written) == IF written.number THEN <<written.value>> ELSE <<>>

\* Config::from_toml_file is called: fs::read_to_string fails, or serde
\* starts on the file's contents.
FromTomlFile ==
    /\ Len(parses) < MaxParses
    /\ \E file \in ConfigFiles :
           /\ parses' = Append(parses,
                  [ file            |-> file,
                    pc              |-> IF file.readable THEN "density"
                                        ELSE "done",
                    result          |-> IF file.readable THEN "" ELSE "Err",
                    default_density |-> 0,
                    densities       |-> <<>> ])
           /\ op' = "Config::from_toml_file"
           /\ result' = IF file.readable THEN "" ELSE "Err"
    /\ UNCHANGED <<line_segments, leds, line_segment_endpoint_indices,
                   vertex_indices, center_point, data, room_vars,
                   DEFAULT_DENSITY>>

\* Config::set_default_density, first half:
\* DEFAULT_DENSITY = f32::deserialize(des).unwrap_or(0.0).
SetDefaultDensity ==
    /\ \E i \in 1..Len(parses) :
           /\ parses[i].pc = "density"
           /\ DEFAULT_DENSITY' =
                  IF deserialize_f32(parses[i].file.density) = <<>> THEN 0
                  ELSE deserialize_f32(parses[i].file.density)[1]
           /\ parses' = [parses EXCEPT ![i].pc = "density_set"]
    /\ UNCHANGED <<line_segments, leds, line_segment_endpoint_indices,
                   vertex_indices, center_point, data, room_vars, op, result>>

\* Config::set_default_density, second half: Ok(unsafe { DEFAULT_DENSITY })
\* becomes the Config's default_density.
ReturnDefaultDensity ==
    /\ \E i \in 1..Len(parses) :
           /\ parses[i].pc = "density_set"
           /\ parses' = [parses EXCEPT ![i].pc = "line_segment",
                                       ![i].default_density = DEFAULT_DENSITY]
    /\ UNCHANGED <<line_segments, leds, line_segment_endpoint_indices,
                   vertex_indices, center_point, data, room_vars,
                   DEFAULT_DENSITY, op, result>>

\* Config::get_default_density.
get_default_density == DEFAULT_DENSITY

\* The next line_segment table is deserialized, a density left out being
\* taken from get_default_density; after the last table from_toml_file
\* returns Ok(config).
DeserializeLineSegment ==
    /\ \E i \in 1..Len(parses) :
           /\ parses[i].pc = "line_segment"
           /\ LET table == parses[i].file.line_segment[
                               Len(parses[i].densities) + 1]
                  last  == Len(parses[i].densities) + 1
                               = Len(parses[i].file.line_segment)
              IN  /\ parses' =
                         [parses EXCEPT
                             ![i].densities =
                                 Append(@, IF table = <<>>
                                           THEN get_default_density
                                           ELSE table[1]),
                             ![i].pc = IF last THEN "done" ELSE @,
                             ![i].result = IF last THEN "Ok" ELSE @]
                  /\ op' = "Config::from_toml_file"
                  /\ result' = IF last THEN "Ok" ELSE ""
    /\ UNCHANGED <<line_segments, leds, line_segment_endpoint_indices,
                   vertex_indices, center_point, data, room_vars,
                   DEFAULT_DENSITY>>

InitConfig ==
    /\ NoSled
    /\ NoRoom
    /\ NoParse
    /\ op = "main"
    /\ result = "Ok"

NextConfig ==
    \/ FromTomlFile
    \/ SetDefaultDensity \/ ReturnDefaultDensity
    \/ DeserializeLineSegment

SpecConfig == InitConfig /\ [][NextConfig]_vars

(***************************************************************************)
(* What the properties below speak about.                                  *)
(***************************************************************************)
NumSegments == Len(line_segments)
NumLeds == Len(leds)
NumVertices == Len(vertex_indices)

BufferPositions == 0..(NumLeds - 1)
SegmentIndices == 0..(NumSegments - 1)
VertexPositions == 0..(NumVertices - 1)

\* The LED count the layout computes for segment i.
SegmentLedCount(i) == num_leds(At(line_segments, i))

\* The LED counts of the segments before segment i, added up.
RECURSIVE LedsBefore(_)
LedsBefore(i) == IF i = 0 THEN 0 ELSE LedsBefore(i - 1) + SegmentLedCount(i - 1)

SegmentStart(i) == At(line_segment_endpoint_indices, i)[1]
SegmentEnd(i) == At(line_segment_endpoint_indices, i)[2]

\* The buffer positions of the LEDs whose segment id is i.
LedsOfSegment(i) == {p \in BufferPositions : At(leds, p).segment = i}

Range(seq) == {seq[k] : k \in 1..Len(seq)}

\* Segment i starts where segment i - 1 ended.
Joined(i) == i > 0 /\ At(line_segments, i).start = At(line_segments, i - 1).end

(***************************************************************************)
(* C1.  For every constructed layout the LED buffer is as long as the sum  *)
(* of the per-segment LED counts, and the LED stored at buffer position p  *)
(* has index field p.                                                      *)
(***************************************************************************)
C1_BufferLengthAndIndex ==
    /\ NumLeds = LedsBefore(NumSegments)
    /\ \A p \in BufferPositions : At(leds, p).index = p

\* A two-segment layout of three LEDs, some of them already recoloured.
C1_Witness ==
    /\ NumSegments = 2
    /\ NumLeds = 3
    /\ At(leds, 2).index = 2
    /\ \E p \in BufferPositions : At(leds, p).color = "red"

(***************************************************************************)
(* C2.  The endpoint table has one entry per segment; the first entry      *)
(* starts at 0, every later entry starts where the one before ended, every *)
(* entry spans the LED count of its segment, and the last one ends at the  *)
(* buffer length.  Every LED at a position in [start_i, end_i) has segment *)
(* id i, and get_segment(i) returns exactly the LEDs of segment i.         *)
(***************************************************************************)
C2_EndpointTable ==
    /\ Len(line_segment_endpoint_indices) = NumSegments
    /\ SegmentStart(0) = 0
    /\ \A i \in SegmentIndices :
        /\ i > 0 => SegmentStart(i) = SegmentEnd(i - 1)
        /\ SegmentEnd(i) - SegmentStart(i) = SegmentLedCount(i)
        /\ \A p \in SegmentStart(i)..(SegmentEnd(i) - 1) :
               p \in BufferPositions /\ At(leds, p).segment = i
        /\ LET got == get_segment(leds, line_segment_endpoint_indices, i)
           IN  /\ got.tag = "Some"
               /\ Range(got.val) = LedsOfSegment(i)
               /\ Len(got.val) = Cardinality(LedsOfSegment(i))
    /\ SegmentEnd(NumSegments - 1) = NumLeds

\* get_segment has returned a segment of a layout whose two segments hold
\* two LEDs and one LED.
C2_Witness ==
    /\ op = "get_segment"
    /\ result = "Some"
    /\ line_segment_endpoint_indices = << <<0, 2>>, <<2, 3>> >>

(***************************************************************************)
(* C3.  Vertex collapsing.  The vertex table lists, in buffer order, the   *)
(* start LED of the first segment, the last LED of every segment, and the  *)
(* first LED of a later segment only when that segment's start point       *)
(* differs from the end point of the segment before it; a joint shared by  *)
(* two consecutive segments is one vertex.                                 *)
(***************************************************************************)
\* How often buffer position p is due in the vertex table.
VerticesDueAt(p) ==
    Cardinality({i \in SegmentIndices : SegmentEnd(i) - 1 = p})
    + Cardinality({i \in SegmentIndices : ~Joined(i) /\ SegmentStart(i) = p})

C3_VertexCollapsing ==
    /\ At(vertex_indices, 0) = SegmentStart(0)
    /\ \A k \in VertexPositions :
           k > 0 => At(vertex_indices, k - 1) <= At(vertex_indices, k)
    /\ \A p \in BufferPositions :
           Cardinality({k \in VertexPositions : At(vertex_indices, k) = p})
               = VerticesDueAt(p)
    /\ NumVertices =
           NumSegments + 1
           + Cardinality({i \in SegmentIndices : i > 0 /\ ~Joined(i)})
    /\ (NumSegments = 2 /\ Joined(1)) => NumVertices = 3

\* Two segments that share an end point, the first of them with two LEDs.
C3_Witness ==
    /\ NumSegments = 2
    /\ Joined(1)
    /\ SegmentLedCount(0) = 2
    /\ vertex_indices = <<0, 1, 2>>

(***************************************************************************)
(* C4.  Every entry of the vertex table is a valid buffer position and is  *)
(* the first or the last LED of some segment, so set_vertices and          *)
(* for_each_vertex never index out of bounds.                              *)
(***************************************************************************)
C4_VerticesAreEndpoints ==
    /\ \A k \in VertexPositions :
        /\ At(vertex_indices, k) \in BufferPositions
        /\ \E i \in SegmentIndices :
               At(vertex_indices, k) \in {SegmentStart(i), SegmentEnd(i) - 1}
    /\ op \in {"set_vertices", "for_each_vertex"} => result = "Ok"

\* set_vertices has run on a layout with four vertices.
C4_Witness ==
    /\ op = "set_vertices"
    /\ result = "Ok"
    /\ NumVertices = 4
    /\ \A k \in VertexPositions : At(leds, At(vertex_indices, k)).color = "red"

(***************************************************************************)
(* C5.  Every vertex-indexed method resolves vertex index k through the    *)
(* vertex table: vertex(k) and get_vertex(k) return the LED at buffer      *)
(* position vertex_indices[k], and modulate_vertex(k, rule) and            *)
(* set_vertex(k, c) recolour exactly that LED and no other.                *)
(***************************************************************************)
C5_VertexMethodsUseVertexTable ==
    \A k \in VertexPositions :
        LET p == At(vertex_indices, k)
        IN  /\ vertex(leds, vertex_indices, k) = Outcome("Some", <<p>>, leds)
            /\ get_vertex(leds, vertex_indices, k) = Outcome("Some", <<p>>, leds)
            /\ \A rule \in ColorRules :
                   modulate_vertex(leds, vertex_indices, k, rule)
                     = Outcome("Ok", <<>>,
                               with_color(leds, p, color_rule(rule, At(leds, p))))
            /\ \A color \in Colors :
                   set_vertex(leds, vertex_indices, k, color)
                     = Outcome("Ok", <<>>, with_color(leds, p, color))

(***************************************************************************)
(* C6.  Round trip: in any reachable buffer state, for every valid index i *)
(* and colour c, set(i, c) returns Ok, a get(i) right after it returns an  *)
(* LED of colour c, and the colour of every other LED is unchanged.        *)
(***************************************************************************)
C6_SetGetRoundTrip ==
    [][op' = "set" =>
        \A index \in BufferPositions, color \in Colors :
            (/\ leds' = set(leds, index, color).leds
             /\ result' = set(leds, index, color).tag)
            => /\ result' = "Ok"
               /\ get(leds', index).tag = "Some"
               /\ At(leds', get(leds', index).val[1]).color = color
               /\ \A other \in BufferPositions \ {index} :
                      At(leds', other).color = At(leds, other).color]_vars

\* A successful set on a buffer that now holds both colours.
C6_Witness ==
    /\ op = "set"
    /\ result = "Ok"
    /\ \E p, q \in BufferPositions :
           At(leds, p).color = "red" /\ At(leds, q).color = "black"

(***************************************************************************)
(* C7.  Idempotence: from any buffer state, set_range, set_segment,        *)
(* set_segments and set_vertices applied twice in a row with the same      *)
(* arguments leave the buffer, and return the result, of applying them     *)
(* once.  (A call that panics is not followed by a second one.)            *)
(***************************************************************************)
SameAsOnce(once, twice) ==
    /\ twice.leds = once.leds
    /\ twice.tag = once.tag

C7_BulkSetIdempotent ==
    /\ \A start \in RangeArgs, end \in RangeArgs, color \in Colors :
           LET once == set_range(leds, start, end, color)
           IN  once.tag # "Panic" =>
                   SameAsOnce(once, set_range(once.leds, start, end, color))
    /\ \A segment_index \in SegmentArgs, color \in Colors :
           LET once == set_segment(leds, line_segment_endpoint_indices,
                                   segment_index, color)
           IN  once.tag # "Panic" =>
                   SameAsOnce(once,
                              set_segment(once.leds, line_segment_endpoint_indices,
                                          segment_index, color))
    /\ \A range_start \in SegmentRangeArgs, range_end \in SegmentRangeArgs,
          color \in Colors :
           LET once == set_segments(leds, line_segment_endpoint_indices,
                                    range_start, range_end, color)
           IN  once.tag # "Panic" =>
                   SameAsOnce(once,
                              set_segments(once.leds, line_segment_endpoint_indices,
                                           range_start, range_end, color))
    /\ \A color \in Colors :
           LET once == set_vertices(leds, vertex_indices, color)
           IN  once.tag # "Panic" =>
                   SameAsOnce(once, set_vertices(once.leds, vertex_indices, color))

\* set_segments has recoloured part of a buffer that holds both colours.
C7_Witness ==
    /\ op = "set_segments"
    /\ result = "Ok"
    /\ NumSegments = 2
    /\ \E p, q \in BufferPositions :
           At(leds, p).color = "red" /\ At(leds, q).color = "black"

(***************************************************************************)
(* C8.  The read accessors never panic on bad input: get, get_range,       *)
(* get_segment and get_vertex return None or an error value for an index   *)
(* past the buffer, a range that ends past the buffer or starts after its  *)
(* end, a segment index past the table and a vertex index past the table.  *)
(***************************************************************************)
C8_ReadsNeverPanic ==
    /\ op \in {"get", "get_range", "get_segment", "get_vertex"}
           => result # "Panic"
    /\ \A index \in IndexArgs :
           index >= NumLeds => get(leds, index).tag = "None"
    /\ \A start \in RangeArgs, end \in RangeArgs :
           (end > NumLeds \/ start > end)
               => get_range(leds, start, end).tag \in {"None", "Err"}
    /\ get_segment(leds, line_segment_endpoint_indices, NumSegments).tag = "None"
    /\ get_vertex(leds, vertex_indices, NumVertices).tag = "None"

(***************************************************************************)
(* C9.  segments, set_segments and modulate_segments check both ends of    *)
(* the segment index range before they touch an LED: when range.start or   *)
(* range.end exceeds the number of segments the call returns an error      *)
(* (None for segments), does not panic and changes no LED.                 *)
(***************************************************************************)
C9_SegmentRangeChecked ==
    \A range_start \in SegmentRangeArgs, range_end \in SegmentRangeArgs :
        (range_start > NumSegments \/ range_end > NumSegments) =>
            /\ segments(leds, line_segment_endpoint_indices,
                        range_start, range_end) = Outcome("None", <<>>, leds)
            /\ \A color \in Colors :
                   set_segments(leds, line_segment_endpoint_indices,
                                range_start, range_end, color)
                     = Outcome("Err", <<>>, leds)
            /\ \A rule \in ColorRules :
                   modulate_segments(leds, line_segment_endpoint_indices,
                                     range_start, range_end, rule)
                     = Outcome("Err", <<>>, leds)

(***************************************************************************)
(* C10.  A segment index range a..b with a < b <= number of segments is    *)
(* half-open: segments(a..b), set_segments(a..b, c) and                    *)
(* modulate_segments(a..b, rule) address exactly the LEDs of the segments  *)
(* i with a <= i < b, and a..number_of_segments reaches the last segment.  *)
(***************************************************************************)
\* The buffer positions of the LEDs of the segments a, ..., b - 1.
LedsOfSegments(a, b) ==
    {p \in BufferPositions : a <= At(leds, p).segment /\ At(leds, p).segment < b}

\* The buffer with the LEDs at `target` set to `color`.
Recoloured(target, color) ==
    [p \in 1..NumLeds |->
        IF (p - 1) \in target THEN [leds[p] EXCEPT !.color = color] ELSE leds[p]]

\* The buffer with the LEDs at `target` recoloured by `rule`.
Modulated(target, rule) ==
    [p \in 1..NumLeds |->
        IF (p - 1) \in target
        THEN [leds[p] EXCEPT !.color = color_rule(rule, leds[p])]
        ELSE leds[p]]

C10_SegmentRangeHalfOpen ==
    \A a \in SegmentRangeArgs, b \in SegmentRangeArgs :
        (a < b /\ b <= NumSegments) =>
            LET got == segments(leds, line_segment_endpoint_indices, a, b)
            IN  /\ got.tag = "Some"
                /\ Range(got.val) = LedsOfSegments(a, b)
                /\ \A color \in Colors :
                       set_segments(leds, line_segment_endpoint_indices,
                                    a, b, color)
                         = Outcome("Ok", <<>>,
                                   Recoloured(LedsOfSegments(a, b), color))
                /\ \A rule \in ColorRules :
                       modulate_segments(leds, line_segment_endpoint_indices,
                                         a, b, rule)
                         = Outcome("Ok", <<>>,
                                   Modulated(LedsOfSegments(a, b), rule))

(***************************************************************************)
(* C11.  set_range(range, c) is atomic.  If any index of the range is out  *)
(* of bounds the call returns an error and no LED's colour has changed;    *)
(* otherwise it succeeds and every LED of the range has colour c.  In      *)
(* particular a range that starts inside the buffer and ends past it       *)
(* changes nothing.                                                        *)
(***************************************************************************)
C11_SetRangeAtomic ==
    \A start \in RangeArgs, end \in RangeArgs, color \in Colors :
        LET out == set_range(leds, start, end, color)
        IN  IF \E index \in start..(end - 1) : index >= NumLeds
            THEN out = Outcome("Err", <<>>, leds)
            ELSE /\ out.tag = "Ok"
                 /\ \A index \in start..(end - 1) :
                        At(out.leds, index).color = color

(***************************************************************************)
(* C12.  The single-target setters fail cleanly.  set with an index at or  *)
(* past the number of LEDs, set_segment and modulate_segment with a        *)
(* segment index at or past the number of segments, and set_vertex and     *)
(* modulate_vertex with a vertex index at or past the number of vertices   *)
(* each return an error and leave every LED's colour as it was.            *)
(***************************************************************************)
C12_SingleTargetSettersFailCleanly ==
    /\ \A index \in NumLeds..(NumLeds + 1), color \in Colors :
           set(leds, index, color) = Outcome("Err", <<>>, leds)
    /\ \A s \in NumSegments..(NumSegments + 1) :
           /\ \A color \in Colors :
                  set_segment(leds, line_segment_endpoint_indices, s, color)
                      = Outcome("Err", <<>>, leds)
           /\ \A rule \in ColorRules :
                  modulate_segment(leds, line_segment_endpoint_indices, s, rule)
                      = Outcome("Err", <<>>, leds)
    /\ \A v \in NumVertices..(NumVertices + 1) :
           /\ \A color \in Colors :
                  set_vertex(leds, vertex_indices, v, color)
                      = Outcome("Err", <<>>, leds)
           /\ \A rule \in ColorRules :
                  modulate_vertex(leds, vertex_indices, v, rule)
                      = Outcome("Err", <<>>, leds)

\* A failed modulate_segment on a buffer that earlier calls had recoloured.
C12_Witness ==
    /\ op = "modulate_segment"
    /\ result = "Err"
    /\ \E p \in BufferPositions : At(leds, p).color = "red"
    /\ \E p \in BufferPositions : At(leds, p).color = "black"

InvalidLayout ==
    \/ line_segments = <<>>
    \/ LedsBefore(NumSegments) = 0
    \/ \E k \in 1..NumSegments : line_segments[k].density < 0

(***************************************************************************)
(* C14.  Construction is all-or-nothing.  Sled::new fails with an error,   *)
(* and returns no Sled, when the layout has an empty segment list, yields  *)
(* zero LEDs in total, or contains a negative density; it never returns a  *)
(* Sled whose buffer is empty and never panics on such a layout.           *)
(***************************************************************************)
C14_ConstructionAllOrNothing ==
    /\ op = "new" => result # "Panic"
    /\ op = "new" /\ InvalidLayout => result = "Err"
    /\ Constructed => NumLeds > 0 /\ ~InvalidLayout

\* The points with integer coordinates on a segment.  The rays of the
\* query domains meet the segment choices only at such points.
LatticePoints(segment) ==
    LET unit == <<(segment.end[1] - segment.start[1]) \div length(segment),
                  (segment.end[2] - segment.start[2]) \div length(segment)>>
    IN  { <<segment.start[1] + k * unit[1], segment.start[2] + k * unit[2]>> :
              k \in 0..length(segment) }

\* The point lies on the ray from pos along dir.
OnRay(point, pos, dir) ==
    /\ Cross(Sub(point, pos), dir) = 0
    /\ Dot(Sub(point, pos), dir) >= 0

\* The ray from pos along dir has no point in common with any segment.
Misses(pos, dir) ==
    \A i \in SegmentIndices :
        \A point \in LatticePoints(At(line_segments, i)) :
            ~OnRay(point, pos, dir)

(***************************************************************************)
(* C15.  A directional query whose ray intersects no segment is a miss,    *)
(* not an error and not a panic: get_at_dir, get_at_angle and              *)
(* get_at_dir_from return None, and set_at_dir and set_at_angle leave      *)
(* every LED's colour unchanged.                                           *)
(***************************************************************************)
C15_DirectionalMiss ==
    /\ \A pos \in QueryPoints, dir \in Dirs :
           Misses(pos, dir) =>
               get_at_dir_from(leds, line_segments,
                               line_segment_endpoint_indices, pos, dir)
                   = Outcome("None", <<>>, leds)
    /\ \A dir \in Dirs :
           Misses(center_point, dir) =>
               /\ get_at_dir(leds, line_segments, line_segment_endpoint_indices,
                             center_point, dir)
                      = Outcome("None", <<>>, leds)
               /\ \A color \in Colors :
                      LET out == set_at_dir(leds, line_segments,
                                            line_segment_endpoint_indices,
                                            center_point, dir, color)
                      IN  out.tag # "Panic" /\ out.leds = leds
    /\ \A angle \in Angles :
           Misses(center_point, from_angle(angle)) =>
               /\ get_at_angle(leds, line_segments,
                               line_segment_endpoint_indices,
                               center_point, angle)
                      = Outcome("None", <<>>, leds)
               /\ \A color \in Colors :
                      LET out == set_at_angle(leds, line_segments,
                                              line_segment_endpoint_indices,
                                              center_point, angle, color)
                      IN  out.tag # "Panic" /\ out.leds = leds

\* A set_at_dir that missed the only segment, the far wall, after an
\* earlier call had lit its LED.
C15_Witness ==
    /\ op = "set_at_dir"
    /\ result = "Err"
    /\ NumSegments = 1
    /\ \E dir \in Dirs : Misses(center_point, dir)
    /\ \A dir \in Dirs :
           ~Misses(center_point, dir) =>
               set_at_dir(leds, line_segments, line_segment_endpoint_indices,
                          center_point, dir, "red").tag = "Ok"
    /\ At(leds, 0).color = "red"

(***************************************************************************)
(* C16.  For every point and radius r, every LED returned by               *)
(* get_at_dist_from(point, r) is also returned by                          *)
(* get_within_dist_from(point, r), the LED at the upper end of the index   *)
(* range between the two circle intersections included.                    *)
(***************************************************************************)
C16_AtDistInsideWithinDist ==
    \A pos \in QueryPoints, r \in Dists :
        LET at     == get_at_dist_from(leds, line_segments,
                                       line_segment_endpoint_indices, pos, r)
            within == get_within_dist_from(leds, line_segments,
                                           line_segment_endpoint_indices,
                                           pos, r)
        IN  at.tag = "Some" =>
                /\ within.tag = "Some"
                /\ Range(at.val) \subseteq Range(within.val)

\* The keys the length assertion of set and store admits.
AdmittedKeys == {key \in DataKeys : key_len(key) < 24}

(***************************************************************************)
(* C17.  Data::get and Data::get_mut tell two failures apart.  A key that  *)
(* was never set gives the error "No data associated with the key"; a key  *)
(* that holds a value of another type than the one asked for gives a       *)
(* different error, saying that data exists but is not of type T; a key    *)
(* that holds a value of type T gives Ok with that value.                  *)
(***************************************************************************)
C17_GetTellsMissingFromWrongType ==
    \A key \in DataKeys, type \in DataTypes :
        LET got     == data_get(data, key, type)
            got_mut == data_get_mut(data, key, type)
        IN  /\ got.data = data /\ got_mut.data = data
            /\ key \notin DOMAIN data =>
                   /\ got.tag = "Err" /\ got.val = NoDataMessage
                   /\ got_mut.tag = "Err" /\ got_mut.val = NoDataMessage
            /\ key \in DOMAIN data /\ data[key].type # type =>
                   /\ got.tag = "Err" /\ got.val = GetTypeMessage
                   /\ got_mut.tag = "Err" /\ got_mut.val = GetMutTypeMessage
                   /\ got.val # NoDataMessage /\ got_mut.val # NoDataMessage
            /\ key \in DOMAIN data /\ data[key].type = type =>
                   /\ got.tag = "Ok" /\ got.val = data[key].value
                   /\ got_mut.tag = "Ok" /\ got_mut.val = data[key].value

\* A get that failed on a store holding one key and lacking another: some
\* requests fail for the missing key, others for the wrong type.
C17_Witness ==
    /\ op = "Data::get"
    /\ result = "Err"
    /\ DOMAIN data = {"abc"}
    /\ data["abc"].type = "bool"

C20_ForEachInSegmentLastAlphaOne ==
    \A s \in SegmentIndices, f \in SegmentFuncs :
        LET calls == for_each_in_segment(leds, line_segment_endpoint_indices,
                                         s, f).val
        IN  /\ calls[1].alpha[1] = 0
            /\ calls[Len(calls)].alpha[1] = calls[Len(calls)].alpha[2]

\* The far end of the ray Sled::raycast_for_index casts from pos along dir.
RayEnd(pos, dir) ==
    <<pos[1] + dir[1] * raycast_dist, pos[2] + dir[2] * raycast_dist>>

\* The segments the ray from pos along dir crosses.
Crossed(pos, dir) ==
    { i \in SegmentIndices :
        intersects_line(At(line_segments, i), pos, RayEnd(pos, dir)) # <<>> }

(***************************************************************************)
(* C21.  The directional raycast tests the segments in declaration order   *)
(* and resolves to the first segment the ray crosses, even when a later    *)
(* segment is crossed too (possibly nearer to the origin).  The LED index  *)
(* it returns is that segment's start index plus floor(t * LED count of    *)
(* the segment), t being the parameter of the crossing along the segment;  *)
(* a ray that crosses no segment gives no index.                           *)
(***************************************************************************)
C21_RaycastFirstInLayoutOrder ==
    \A pos \in QueryPoints, dir \in Dirs :
        raycast_for_index(line_segments, line_segment_endpoint_indices,
                          pos, dir)
            = IF Crossed(pos, dir) = {} THEN <<>>
              ELSE LET first == CHOOSE i \in Crossed(pos, dir) :
                                    \A j \in Crossed(pos, dir) : i <= j
                       t == intersects_line(At(line_segments, first),
                                            pos, RayEnd(pos, dir))[1]
                   IN  << SegmentStart(first)
                            + (t[1] * SegmentLedCount(first)) \div t[2] >>

\* set_at_dir has lit the LED of the far wall, listed first, although the
\* ray starts on the second segment: the center point lies on that segment
\* and not on the first, some ray from it crosses both, and every ray that
\* does resolves to the first segment's LED, which is the only one lit.
C21_Witness ==
    /\ op = "set_at_dir"
    /\ result = "Ok"
    /\ NumSegments = 2
    /\ center_point \in LatticePoints(At(line_segments, 1))
    /\ center_point \notin LatticePoints(At(line_segments, 0))
    /\ \E dir \in Dirs : Crossed(center_point, dir) = {0, 1}
    /\ \A dir \in Dirs :
           Crossed(center_point, dir) = {0, 1} =>
               raycast_for_index(line_segments, line_segment_endpoint_indices,
                                 center_point, dir) = <<SegmentStart(0)>>
    /\ At(leds, SegmentStart(0)).color = "red"
    /\ \A p \in BufferPositions :
           p # SegmentStart(0) => At(leds, p).color = "black"

\* Parameters along a segment: its start, its middle and its end point.
Alphas == { <<0, 1>>, <<1, 2>>, <<1, 1>> }

(***************************************************************************)
(* C22.  For every segment s and every parameter alpha in [0, 1], alpha =  *)
(* 1 (a hit exactly on the segment's end point) included,                  *)
(* alpha_to_index(alpha, s) is an index inside the segment's own range     *)
(* [start_s, end_s) and hence smaller than the number of LEDs; so          *)
(* get_closest_to, get_at_dist_from and the directional getters never      *)
(* index past the buffer and never panic.                                  *)
(***************************************************************************)
C22_AlphaToIndexInsideSegment ==
    /\ \A s \in SegmentIndices, alpha \in Alphas :
           LET index == alpha_to_index(line_segments,
                                       line_segment_endpoint_indices, alpha, s)
           IN  SegmentStart(s) <= index /\ index < SegmentEnd(s)
                   /\ index < NumLeds
    /\ \A pos \in QueryPoints :
           /\ get_closest_to(leds, line_segments,
                             line_segment_endpoint_indices, pos).tag # "Panic"
           /\ \A dist \in Dists :
                  get_at_dist_from(leds, line_segments,
                                   line_segment_endpoint_indices,
                                   pos, dist).tag # "Panic"
           /\ \A dir \in Dirs :
                  get_at_dir_from(leds, line_segments,
                                  line_segment_endpoint_indices,
                                  pos, dir).tag # "Panic"
    /\ result # "Panic"

\* No entry of the sequence appears twice.
NoRepeats(seq) == \A j, k \in 1..Len(seq) : seq[j] = seq[k] => j = k

(***************************************************************************)
(* C23.  The mutable distance queries get_at_dist_from_mut and             *)
(* get_within_dist_from_mut return every LED at most once, even when the   *)
(* immutable query lists an index several times, and the set of indices    *)
(* they return is the set of indices get_at_dist_from and                  *)
(* get_within_dist_from return for the same arguments.                     *)
(***************************************************************************)
C23_MutableQueriesDoNotAlias ==
    \A pos \in QueryPoints, dist \in Dists :
        /\ LET shared == get_at_dist_from(leds, line_segments,
                                          line_segment_endpoint_indices,
                                          pos, dist)
               unique == get_at_dist_from_mut(leds, line_segments,
                                              line_segment_endpoint_indices,
                                              pos, dist)
           IN  shared.tag = "Some" =>
                   /\ unique.tag = "Some"
                   /\ NoRepeats(unique.val)
                   /\ Range(unique.val) = Range(shared.val)
        /\ LET shared == get_within_dist_from(leds, line_segments,
                                              line_segment_endpoint_indices,
                                              pos, dist)
               unique == get_within_dist_from_mut(leds, line_segments,
                                                  line_segment_endpoint_indices,
                                                  pos, dist)
           IN  shared.tag = "Some" =>
                   /\ unique.tag = "Some"
                   /\ NoRepeats(unique.val)
                   /\ Range(unique.val) = Range(shared.val)

\* get_at_dist_from_mut has returned on a layout where, for some point and
\* distance, get_at_dist_from lists one LED twice.
C23_Witness ==
    /\ op = "get_at_dist_from_mut"
    /\ result = "Some"
    /\ \E pos \in QueryPoints, dist \in Dists :
           LET shared == get_at_dist_from(leds, line_segments,
                                          line_segment_endpoint_indices,
                                          pos, dist)
           IN  shared.tag = "Some" /\ ~NoRepeats(shared.val)

(***************************************************************************)
(* C24.  In the within-distance query a segment contributes LEDs only when *)
(* the solid-circle test yields two parameters.  It then contributes the   *)
(* contiguous run of indices between the two converted indices, taken      *)
(* low-to-high whichever parameter came first, and every contributed index *)
(* lies inside the segment's own range [start_s, end_s), so that the       *)
(* lookup never fails.                                                     *)
(***************************************************************************)
C24_WithinDistRunInsideSegment ==
    /\ \A s \in SegmentIndices :
           /\ indices_within_segment(line_segments,
                                     line_segment_endpoint_indices, <<>>, s)
                  = <<>>
           /\ \A only \in Alphas :
                  indices_within_segment(line_segments,
                                         line_segment_endpoint_indices,
                                         <<only>>, s) = <<>>
           /\ \A first \in Alphas, second \in Alphas :
                  LET run  == indices_within_segment(
                                  line_segments, line_segment_endpoint_indices,
                                  <<first, second>>, s)
                      low  == alpha_to_index(
                                  line_segments, line_segment_endpoint_indices,
                                  IF Less(second, first) THEN second ELSE first,
                                  s)
                      high == alpha_to_index(
                                  line_segments, line_segment_endpoint_indices,
                                  IF Less(second, first) THEN first ELSE second,
                                  s)
                  IN  /\ Len(run) = high - low
                      /\ \A k \in 1..Len(run) :
                             /\ run[k] = low + k - 1
                             /\ SegmentStart(s) <= run[k]
                             /\ run[k] < SegmentEnd(s)
    /\ \A pos \in QueryPoints, dist \in Dists :
           get_within_dist_from(leds, line_segments,
                                line_segment_endpoint_indices,
                                pos, dist).tag = "Some"
    /\ op = "get_within_dist_from" => result = "Some"

\* get_within_dist_from has returned on a layout where, for some point and
\* distance, the disk covers a segment up to its end point (exit parameter
\* 1) and the segment contributes all of its LEDs.
C24_Witness ==
    /\ op = "get_within_dist_from"
    /\ result = "Some"
    /\ \E pos \in QueryPoints, dist \in Dists, s \in SegmentIndices :
           LET span == intersects_solid_circle(At(line_segments, s), pos, dist)
           IN  /\ Len(span) = 2
               /\ span[2][1] = span[2][2]
               /\ SegmentLedCount(s) = 2
               /\ indices_within_segment(line_segments,
                                         line_segment_endpoint_indices,
                                         span, s)
                      = <<SegmentStart(s), SegmentStart(s) + 1>>

(***************************************************************************)
(* C25.  The Sweep thread makes progress under the RwLock: every loop      *)
(* iteration that requests the controller's write lock eventually obtains  *)
(* it, applies the fade and set_at_room_dir, and releases it; the thread   *)
(* never blocks forever on a lock it holds itself.                         *)
(***************************************************************************)
C25_SweepObtainsWriteLock ==
    (sweep.pc = "write")
        ~> (sweep.pc = "loop" /\ sweep.last = sweep.duration /\ lock.writer = {})

(***************************************************************************)
(* C26.  Every line segment that omits its density receives the default    *)
(* density declared in the same configuration being parsed, for            *)
(* configurations parsed one after another and for two                     *)
(* Config::from_toml_file calls running at the same time (the process-wide *)
(* DEFAULT_DENSITY written by one parse is never seen by a segment of      *)
(* another configuration); and a default density that cannot be parsed is  *)
(* reported as an error instead of silently becoming 0.                    *)
(***************************************************************************)
C26_DefaultDensityOfOwnFile ==
    \A i \in 1..Len(parses) :
        /\ \A k \in 1..Len(parses[i].densities) :
               parses[i].file.line_segment[k] = <<>> =>
                   /\ parses[i].file.density.number
                   /\ parses[i].densities[k] = parses[i].file.density.value
        /\ parses[i].pc = "done" /\ ~parses[i].file.density.number =>
               parses[i].result = "Err"

(***************************************************************************)
(* C27.  get_vertices_mut agrees with get_vertices on every layout: it     *)
(* returns without panicking a list of the same length whose k-th element  *)
(* is the LED at buffer position vertex_indices[k], layouts in which a     *)
(* one-LED segment makes the same LED index appear twice in the vertex     *)
(* table included.                                                         *)
(***************************************************************************)
C27_VerticesMutAgreesWithVertices ==
    /\ get_vertices(leds, vertex_indices) = Outcome("Some", vertex_indices, leds)
    /\ get_vertices_mut(leds, vertex_indices)
           = get_vertices(leds, vertex_indices)
    /\ op = "get_vertices_mut" => result = "Some"

\* The strips the ray from the view position along dir crosses.
StripsCrossed(dir) ==
    { i \in 0..(Len(room_data.strips) - 1) :
        intersects_line([start |-> At(room_data.strips, i)[1],
                         end   |-> At(room_data.strips, i)[2]],
                        room_data.view_pos,
                        <<room_data.view_pos[1] + dir[1] * room_dist,
                          room_data.view_pos[2] + dir[2] * room_dist>>) # <<>> }

\* The fractional part of a fraction, as a fraction.
FractionalPart(x) == <<x[1] - Floor(x) * x[2], x[2]>>

\* The fractional LED index of a hit on strip i: the LEDs of the strips
\* before it plus t * the LEDs of the strip.
FractionalIndex(i, dir) ==
    LET strip == At(room_data.strips, i)
        t == intersects_line([start |-> strip[1], end |-> strip[2]],
                             room_data.view_pos,
                             <<room_data.view_pos[1] + dir[1] * room_dist,
                               room_data.view_pos[2] + dir[2] * room_dist>>)[1]
    IN  Plus(<<room_led_count(SubSeq(room_data.strips, 1, i),
                              room_data.density), 1>>,
             Times(t, Times(<<strip_len(strip), 1>>, room_data.density)))

SameFraction(x, y) == x[1] * y[2] = y[1] * x[2]

(***************************************************************************)
(* C28.  RoomController::set_at_room_dir(dir, color).  When the ray hits,  *)
(* the LED id returned by get_led_at_room_dir is written with color scaled *)
(* by occupancy and LED id + 1 with color scaled by 1 - occupancy, where   *)
(* occupancy = 1 - the fractional part of the fractional LED index and     *)
(* lies in (0, 1]; LED id + 1 is written only if id + 1 is inside the      *)
(* buffer; id itself is always inside the buffer; no other LED changes;    *)
(* and nothing changes when the ray misses.                                *)
(***************************************************************************)
C28_SetAtRoomDirBlends ==
    \A dir \in RoomDirs, color \in RoomColors :
        LET hit == get_led_at_room_dir(room_data, dir)
            out == set_at_room_dir(room_data, dir, color)
        IN  IF StripsCrossed(dir) = {}
            THEN hit = <<>> /\ out = RoomOutcome("Ok", <<>>, room_data)
            ELSE LET first == CHOOSE i \in StripsCrossed(dir) :
                                  \A j \in StripsCrossed(dir) : i <= j
                     id == hit[1]
                     occupancy == hit[2]
                 IN  /\ hit # <<>>
                     /\ id < Len(room_data.leds)
                     /\ SameFraction(
                            occupancy,
                            Plus(<<1, 1>>,
                                 <<-FractionalPart(FractionalIndex(first, dir))[1],
                                   FractionalPart(FractionalIndex(first, dir))[2]>>))
                     /\ 0 < occupancy[1] /\ occupancy[1] <= occupancy[2]
                     /\ out.tag = "Ok"
                     /\ Len(out.room.leds) = Len(room_data.leds)
                     /\ [out.room EXCEPT !.leds = room_data.leds] = room_data
                     /\ \A p \in 0..(Len(room_data.leds) - 1) :
                            At(out.room.leds, p) =
                                IF p = id
                                THEN << (color[1] * occupancy[1]) \div occupancy[2],
                                        (color[2] * occupancy[1]) \div occupancy[2],
                                        (color[3] * occupancy[1]) \div occupancy[2] >>
                                ELSE IF p = id + 1
                                THEN << (color[1] * (occupancy[2] - occupancy[1]))
                                            \div occupancy[2],
                                        (color[2] * (occupancy[2] - occupancy[1]))
                                            \div occupancy[2],
                                        (color[3] * (occupancy[2] - occupancy[1]))
                                            \div occupancy[2] >>
                                ELSE At(room_data.leds, p)

\* set_at_room_dir has split a color between two LEDs: one LED and the
\* next hold half of the green each, and a ray from the view position
\* lands between two LEDs (occupancy 1/2) on the first of them.
C28_Witness ==
    /\ op = "RoomController::set_at_room_dir"
    /\ result = "Ok"
    /\ \E dir \in RoomDirs :
           LET hit == get_led_at_room_dir(room_data, dir)
           IN  /\ hit # <<>>
               /\ SameFraction(hit[2], <<1, 2>>)
               /\ hit[1] + 1 < Len(room_data.leds)
               /\ At(room_data.leds, hit[1]) = <<0, 127, 0>>
               /\ At(room_data.leds, hit[1] + 1) = <<0, 127, 0>>

\* The largest key the assertion's message promises to accept:
\* "Invalid data key; Max size is 24 bytes".
MaxKeyBytes == 24

(***************************************************************************)
(* C29.  Data::set and Data::store accept every key whose length is at     *)
(* most the stated maximum of 24 bytes (a key of exactly 24 bytes is       *)
(* stored) and panic with the "Invalid data key" assertion only for longer *)
(* keys; a rejected key leaves the store unchanged.                        *)
(***************************************************************************)
C29_KeysUpToMaxAccepted ==
    \A key \in DataKeys, type \in DataTypes, value \in DataValues :
        LET by_set   == data_set(data, key, type, value)
            by_store == data_store(data, key, type, value)
        IN  IF key_len(key) <= MaxKeyBytes
            THEN /\ by_set.tag = "Ok"
                 /\ by_store.tag = "Ok"
                 /\ key \in DOMAIN by_set.data
                 /\ key \in DOMAIN by_store.data
                 /\ by_set.data[key] = DataWrapper(type, value)
                 /\ by_store.data[key] = DataWrapper(type, value)
            ELSE /\ by_set = DataOutcome("Panic", <<>>, data)
                 /\ by_store = DataOutcome("Panic", <<>>, data)

====
